---- MODULE Spec2Model ----
(***************************************************************************)
(* A model of the admission-control, caching and retry engine of           *)
(* src/api_rate_limiter.py (class APIRateLimiter) and of the similarity    *)
(* grouping and batch building of src/batch_processor.py.                  *)
(*                                                                         *)
(* Time is the wall clock in whole seconds.  Strings that the code takes   *)
(* apart (operation names, cache keys) are sequences of tokens: a token is *)
(* a maximal run of characters without ':' or the single character ':'.    *)
(* A key f"{operation}:{hash}" is the operation's tokens, a ':' and the    *)
(* digest, and str.startswith is the prefix test on token sequences.       *)
(***************************************************************************)
EXTENDS Integers, Sequences, FiniteSets, TLC

VARIABLES
    now,              \* datetime.now(), in seconds
    lock,             \* self.lock: the worker holding it, or None
    rate_limits,      \* self.rate_limits: api name -> RateLimit
    request_history,  \* self.request_history: api name -> three deques of instants
    cache,            \* self.cache: key -> [data, timestamp]
    usage_stats,      \* self.usage_stats: api name -> counters
    pc,               \* per worker: where it is in throttled_request / the executor
    frame,            \* per worker: the arguments and locals of its current call
    last_op,          \* the last operation completed on the limiter and what it returned
    calls,            \* the number of calls begun so far
    batch_size,            \* BatchEmailProcessor.batch_size
    similarity_threshold,  \* EmailSimilarityGrouper.similarity_threshold, in 1/10000
    emails,                \* the list last handed to group_emails or _create_batches
    similarity_groups,     \* the groups group_emails returned for it
    batches,               \* the batches _create_batches returned for it
    last_call,             \* which function of the grouper or builder was called last
    similarity_score,      \* the score _calculate_similarity returned last, in 1/10000
    max_workers,           \* BatchEmailProcessor.max_workers
    active_batches,        \* self.active_batches: batch_id -> the batch stored under it
    completed_batches,     \* self.completed_batches: the BatchResults collected
    processing_stats,      \* self.processing_stats
    runs,                  \* per caller: its call of process_emails_batch and its locals
    futures                \* the batches submitted to the pool, each with the frame of
                           \* its _process_single_batch

limiter_vars == <<now, lock, rate_limits, request_history, cache, usage_stats, pc, frame,
                  last_op, calls>>

executor_vars == <<max_workers, active_batches, completed_batches, processing_stats,
                   runs, futures>>

processor_vars == <<batch_size, similarity_threshold, emails, similarity_groups, batches,
                    last_call, similarity_score, max_workers, active_batches,
                    completed_batches, processing_stats, runs, futures>>

vars == <<now, lock, rate_limits, request_history, cache, usage_stats, pc, frame,
          last_op, calls, batch_size, similarity_threshold, emails, similarity_groups,
          batches, last_call, similarity_score, max_workers, active_batches,
          completed_batches, processing_stats, runs, futures>>

None == "None"

-----------------------------------------------------------------------------
(* Bounds of the model *)

NumWorkers == 2
MaxCalls == 3
MaxDirectCalls == 1
MaxDirectRetries == 3
MaxCacheEntries == 2
MaxEmails == 4
MaxBatchSize == 3
NumRuns == 2

Workers == 1 .. NumWorkers

(* Program constants *)

MinuteHorizon == 60
HourHorizon == 3600
DayHorizon == 86400
SentimentTtl == 3600
CategorizationTtl == 1800
DefaultTtl == 3600
DefaultMaxRetries == 3
RateLimitBackoffBase == 5

-----------------------------------------------------------------------------
(* Inputs *)

Services == {"openai", "test_api"}

Sentiment == <<"sentiment">>
Categorization == <<"categorization">>
SentimentV2 == <<"sentiment", ":", "v2">>
EmptyOp == << >>

Contents == {"body_a", "body_b"}

\* Instants the clock visits: each window horizon and each TTL is met from
\* below, exactly and from above by some pair of them.
Instants == {0, 1, 60, 61, 3601, 86401}

RateLimit(m, h, d) ==
    [requests_per_minute |-> m, requests_per_hour |-> h, requests_per_day |-> d]

\* Policies installed by update_rate_limits (limits are at least 1).
Policies == {RateLimit(2, 2, 2)}

Max(a, b) == IF a >= b THEN a ELSE b

RECURSIVE Pow2(_)
Pow2(n) == IF n = 0 THEN 1 ELSE 2 * Pow2(n - 1)

-----------------------------------------------------------------------------
(* Cache keys *)

\* hashlib.md5(content.encode('utf-8')).hexdigest(): one digest token per
\* content; the contents of the model have different digests.
Md5(content) ==
    CASE content = "body_a" -> "md5_3f2a"
      [] content = "body_b" -> "md5_91c7"

GenerateCacheKey(content, operation) == operation \o <<":", Md5(content)>>

StartsWith(s, prefix) ==
    /\ Len(prefix) <= Len(s)
    /\ SubSeq(s, 1, Len(prefix)) = prefix

CacheTtlFor(operation) ==
    IF operation = Sentiment THEN SentimentTtl
    ELSE IF operation = Categorization THEN CategorizationTtl
    ELSE DefaultTtl

\* Variant: an entry expires as soon as its age reaches the TTL.
CacheExpiredAtTtl(c, cache_key, operation, t) ==
    t - c[cache_key].timestamp >= CacheTtlFor(operation)

\* (datetime.now() - cached_item['timestamp']).total_seconds() > ttl
CacheExpired(c, cache_key, operation, t) ==
    t - c[cache_key].timestamp > CacheTtlFor(operation)

Without(c, keys) == [k \in DOMAIN c \ keys |-> c[k]]

\* _get_cached_response: the cache after the read and the value returned.
\* Absent and expired both return None, as does a stored None.
GetCachedResponse(c, cache_key, operation, t) ==
    IF cache_key \notin DOMAIN c
    THEN [cache |-> c, data |-> None]
    ELSE IF CacheExpired(c, cache_key, operation, t)
         THEN [cache |-> Without(c, {cache_key}), data |-> None]
         ELSE [cache |-> c, data |-> c[cache_key].data]

\* Variant: an entry already stored under the key is kept.
CacheResponseKeepsFirst(c, cache_key, data, t) ==
    [k \in DOMAIN c \cup {cache_key} |->
        IF k \in DOMAIN c THEN c[k] ELSE [data |-> data, timestamp |-> t]]

\* _cache_response
CacheResponse(c, cache_key, data, t) ==
    [k \in DOMAIN c \cup {cache_key} |->
        IF k = cache_key THEN [data |-> data, timestamp |-> t] ELSE c[k]]

\* Variant: every key is deleted whatever the operation.
ClearAllKeys(c, given, operation) == DOMAIN c

\* clear_cache: the keys deleted.  `given` is FALSE for clear_cache(None);
\* an empty operation is falsy like None.
KeysToRemove(c, given, operation) ==
    IF given /\ operation # EmptyOp
    THEN {k \in DOMAIN c : StartsWith(k, operation \o <<":">>)}
    ELSE DOMAIN c

-----------------------------------------------------------------------------
(* Request histories and admission *)

EmptyHistory == [minute |-> << >>, hour |-> << >>, day |-> << >>]

RECURSIVE DropOlder(_, _, _)
\* while q and (now - q[0]).total_seconds() > horizon: q.popleft()
DropOlder(q, t, horizon) ==
    IF q # << >> /\ t - Head(q) > horizon
    THEN DropOlder(Tail(q), t, horizon)
    ELSE q

CleanOldRequests(history, t) ==
    [minute |-> DropOlder(history.minute, t, MinuteHorizon),
     hour   |-> DropOlder(history.hour, t, HourHorizon),
     day    |-> DropOlder(history.day, t, DayHorizon)]

\* Variant: the wait is counted from the newest timestamp of the window.
NewestWindowWait(q, limit, horizon, t) ==
    IF Len(q) >= limit /\ horizon - (t - q[Len(q)]) > 0
    THEN horizon - (t - q[Len(q)])
    ELSE 0

\* One window of _check_rate_limit: the positive wait, or 0 when the window
\* does not bind.
WindowWait(q, limit, horizon, t) ==
    IF Len(q) >= limit /\ horizon - (t - Head(q)) > 0
    THEN horizon - (t - Head(q))
    ELSE 0

\* Variant: the largest wait of the windows that bind.
MaxOfBindingWaits(limits, history, api_name, t) ==
    IF api_name \notin DOMAIN limits THEN 0
    ELSE LET rl == limits[api_name]
         IN Max(WindowWait(history.minute, rl.requests_per_minute, MinuteHorizon, t),
                Max(WindowWait(history.hour, rl.requests_per_hour, HourHorizon, t),
                    WindowWait(history.day, rl.requests_per_day, DayHorizon, t)))

\* Variant: a service without a policy falls back to a default policy.
StrictestDefaultPolicy(limits, history, api_name, t) ==
    LET rl == IF api_name \in DOMAIN limits THEN limits[api_name] ELSE RateLimit(1, 1, 1)
    IN IF WindowWait(history.minute, rl.requests_per_minute, MinuteHorizon, t) > 0
       THEN WindowWait(history.minute, rl.requests_per_minute, MinuteHorizon, t)
       ELSE IF WindowWait(history.hour, rl.requests_per_hour, HourHorizon, t) > 0
       THEN WindowWait(history.hour, rl.requests_per_hour, HourHorizon, t)
       ELSE WindowWait(history.day, rl.requests_per_day, DayHorizon, t)

\* _check_rate_limit: the wait in seconds; 0 stands for the None it returns
\* when no window binds (throttled_request tests `if wait_time:`).
CheckRateLimit(limits, history, api_name, t) ==
    IF api_name \notin DOMAIN limits THEN 0
    ELSE LET rl == limits[api_name]
             minute_wait == WindowWait(history.minute, rl.requests_per_minute, MinuteHorizon, t)
             hour_wait == WindowWait(history.hour, rl.requests_per_hour, HourHorizon, t)
             day_wait == WindowWait(history.day, rl.requests_per_day, DayHorizon, t)
         IN IF minute_wait > 0 THEN minute_wait
            ELSE IF hour_wait > 0 THEN hour_wait
            ELSE day_wait

\* Variant: the instant goes into the minute window only.
RecordMinuteOnly(history, t) ==
    [history EXCEPT !.minute = Append(@, t)]

\* _record_request, the history part
RecordRequest(history, t) ==
    [minute |-> Append(history.minute, t),
     hour   |-> Append(history.hour, t),
     day    |-> Append(history.day, t)]

-----------------------------------------------------------------------------
(* The outbound call: what one invocation of request_func produces *)

Response(status_code, retry_after, name) ==
    [kind |-> "response", status_code |-> status_code,
     retry_after |-> retry_after, value |-> name]

\* An object without a status_code attribute (a dict, a str, None)
Plain(v) == [kind |-> "plain", status_code |-> 0, retry_after |-> None, value |-> v]

Raises(e) == [kind |-> "exception", status_code |-> 0, retry_after |-> None, value |-> e]

\* A Retry-After header in its HTTP-date form, naming the instant 2 seconds
\* after the response
HttpDate == "Wed, 21 Oct 2015 07:28:02 GMT"

Ok200 == Response(200, None, "Response200")
Error500 == Response(500, None, "Response500")
TooMany(retry_after) == Response(429, retry_after, "Response429")

\* Every outcome of one attempt
Outcomes ==
    {Ok200, Error500, Plain("result"), Plain(None), Raises("ConnectionError")}
    \cup {TooMany(h) : h \in {None, "", "2", HttpDate}}

\* The outcomes drawn in the throttled path
ThrottledOutcomes ==
    {Ok200, Plain(None)}

\* int(retry_after): the integer, or ValueError
IntOf(s) ==
    CASE s = "2" -> [ok |-> TRUE, value |-> 2]
      [] OTHER   -> [ok |-> FALSE, value |-> 0]

\* Variant: the loop runs one pass more.
LoopRunsOnceMore(attempt, max_retries) == attempt <= max_retries

\* for attempt in range(max_retries)
LoopContinues(attempt, max_retries) == attempt < max_retries

\* Variant: the test for the final attempt compares with max_retries.
FinalAttemptOffByOne(attempt, max_retries) == attempt = max_retries

\* if attempt == max_retries - 1
IsFinalAttempt(attempt, max_retries) == attempt = max_retries - 1

\* One pass of the loop body of _make_request_with_backoff on attempt number
\* `attempt` of `max_retries`, given what request_func produced:
\*   do = "return" (value), "raise" (value), or "sleep" (wait, then the next pass)
LoopBody(outcome, attempt, max_retries) ==
    LET Failed(e) ==
            IF IsFinalAttempt(attempt, max_retries)
            THEN [do |-> "raise", value |-> e, wait |-> 0]
            ELSE [do |-> "sleep", value |-> e, wait |-> Pow2(attempt)]
    IN CASE outcome.kind = "exception" -> Failed(outcome.value)
         [] outcome.kind = "plain" -> [do |-> "return", value |-> outcome.value, wait |-> 0]
         [] outcome.kind = "response" /\ outcome.status_code = 429 ->
                IF outcome.retry_after # None /\ outcome.retry_after # ""
                THEN IF IntOf(outcome.retry_after).ok
                     THEN [do |-> "sleep", value |-> outcome.value,
                           wait |-> IntOf(outcome.retry_after).value]
                     ELSE Failed("ValueError")
                ELSE [do |-> "sleep", value |-> outcome.value,
                      wait |-> Pow2(attempt) * RateLimitBackoffBase]
         [] outcome.kind = "response" /\ outcome.status_code = 200 ->
                [do |-> "return", value |-> outcome.value, wait |-> 0]
         [] OTHER ->
                IF IsFinalAttempt(attempt, max_retries)
                THEN [do |-> "return", value |-> outcome.value, wait |-> 0]
                ELSE [do |-> "sleep", value |-> outcome.value, wait |-> Pow2(attempt)]

-----------------------------------------------------------------------------
(* src/batch_processor.py: emails, their similarity, grouping and batching. *)
(* Scores and thresholds are in 1/10000.  An email's content is a sequence  *)
(* of blocks of 100 characters; its sender is a string and its subject a    *)
(* sequence of fragments: a reply or forward marker, a single space, or a   *)
(* run of other text.  A group and a batch hold positions of the input list.*)

DefaultBatchSize == 10
DefaultMaxWorkers == 3
DefaultSimilarityThreshold == 7000
SameSenderBonus == 1000
SameSubjectBonus == 2000
SimilarLengthBonus == 1000
MaxSimilarity == 10000

E1 == [id |-> 1, from |-> "Alice@Example.com",
       subject |-> <<"Invoice", " ", "1001">>, content |-> <<"p", "q">>]
E2 == [id |-> 2, from |-> "alice@example.com",
       subject |-> <<"Re:", " ", "Invoice", " ", "1001">>, content |-> <<"p", "q", "r">>]
E3 == [id |-> 3, from |-> "bob@example.com",
       subject |-> <<"Re:", " ", "Invoice", " ", "1001">>, content |-> <<"p", "r">>]
E4 == [id |-> 4, from |-> "carol@example.com",
       subject |-> <<"Parcel", " ", "shipped">>, content |-> <<"s", "t">>]
\* E1 again but for the second hundred characters of its body
E5 == [id |-> 5, from |-> "Alice@Example.com",
       subject |-> <<"Invoice", " ", "1001">>, content |-> <<"p", "r">>]
\* The same sender, subjects "Re: X" and "X", bodies of one length
E6 == [id |-> 6, from |-> "amy@example.com",
       subject |-> <<"Re:", " ", "X">>, content |-> <<"u">>]
E7 == [id |-> 7, from |-> "amy@example.com",
       subject |-> <<"X">>, content |-> <<"v">>]
\* Subjects "Invoice re:" and "Invoice"
E8 == [id |-> 8, from |-> "dan@example.com",
       subject |-> <<"Invoice", " ", "re:">>, content |-> <<"p">>]
E9 == [id |-> 9, from |-> "eve@example.com",
       subject |-> <<"Invoice">>, content |-> <<"q">>]

EmailPool == {E1, E2, E3, E4}

\* str.lower on the strings of the emails
Lower(str) ==
    CASE str = "Alice@Example.com" -> "alice@example.com"
      [] str = "Re:"     -> "re:"
      [] str = "Invoice" -> "invoice"
      [] str = "Parcel"  -> "parcel"
      [] str = "X"       -> "x"
      [] OTHER           -> str

LowerWords(words) == [k \in 1 .. Len(words) |-> Lower(words[k])]

\* str.strip on a sequence of fragments
RECURSIVE Strip(_)
Strip(words) ==
    IF words = << >> THEN words
    ELSE IF Head(words) = " " THEN Strip(Tail(words))
    ELSE IF words[Len(words)] = " " THEN Strip(SubSeq(words, 1, Len(words) - 1))
    ELSE words

\* .replace('re:', '').replace('fwd:', '').replace('fw:', '').strip()
CleanSubject(words) ==
    LET Kept(word) == word \notin {"re:", "fwd:", "fw:"}
    IN Strip(SelectSeq(words, Kept))

\* difflib.SequenceMatcher(None, text1.lower(), text2.lower()).ratio() of the
\* texts "from subject content[:200]" of two of the emails
SequenceMatcherRatio(email1, email2) ==
    << <<10000,  9914,  5603,   647,  5844,  2833,  1375,  6852,  6873>>,
       << 9914, 10000,  5726,   641,  5794,  2913,  1586,  6777,  6797>>,
       << 5603,  5726, 10000,    86,  9741,  2817,  1425,  6759,  3249>>,
       <<  733,   726,   730, 10000,   733,  3099,  1709,  3878,  3137>>,
       << 5844,  5794,  9741,   647, 10000,  2776,  1433,  6852,  3324>>,
       << 1076,  1289,  1070,  1014,   907, 10000,  3500,  4160,  3902>>,
       <<  917,   907,   969,   912,  1032,  3500, 10000,  2195,  2066>>,
       << 6797,  6446,  6759,   831,  6797,  3280,  2033, 10000,  4683>>,
       << 6873,  6351,   560,   224,   563,  3496,  1901,  5397, 10000>> >>
        [email1.id][email2.id]

ContentLength(email) == 100 * Len(email.content)

Min(a, b) == IF a <= b THEN a ELSE b

\* _calculate_similarity
CalculateSimilarity(email1, email2) ==
    LET similarity == SequenceMatcherRatio(email1, email2)
        sender == IF Lower(email1.from) = Lower(email2.from)
                  THEN SameSenderBonus ELSE 0
        subject1 == LowerWords(email1.subject)
        subject2 == LowerWords(email2.subject)
        subject == IF /\ subject1 # << >>
                      /\ subject2 # << >>
                      /\ CleanSubject(subject1) = CleanSubject(subject2)
                   THEN SameSubjectBonus ELSE 0
        len1 == ContentLength(email1)
        len2 == ContentLength(email2)
        longer == Max(len1, len2)
        gap == IF len1 >= len2 THEN len1 - len2 ELSE len2 - len1
        \* 1 - abs(len1 - len2) / max(len1, len2) > 0.8
        length == IF len1 > 0 /\ len2 > 0 /\ 5 * (longer - gap) > 4 * longer
                  THEN SimilarLengthBonus ELSE 0
    IN Min(similarity + sender + subject + length, MaxSimilarity)

Range(q) == {q[k] : k \in 1 .. Len(q)}

\* Variant: an item joins when it is similar to any member of the group.
JoinsAnyMember(list, threshold, group, j) ==
    \E m \in Range(group) : CalculateSimilarity(list[m], list[j]) >= threshold

\* similarity = self._calculate_similarity(email, other_email);
\* if similarity >= self.similarity_threshold  (email is the group's first member)
JoinsGroup(list, threshold, group, j) ==
    CalculateSimilarity(list[group[1]], list[j]) >= threshold

\* Variant: only the item that opens a group is marked as used.
MarkAnchorOnly(used_emails, group) == used_emails \cup {group[1]}

\* used_emails.add(i) and used_emails.add(j) for the members of a group
MarkUsed(used_emails, group) == used_emails \cup Range(group)

\* The inner loop of group_emails: for j, other_email in enumerate(emails[i+1:], i+1)
RECURSIVE FindSimilar(_, _, _, _, _)
FindSimilar(list, threshold, group, used_emails, j) ==
    IF j > Len(list) THEN group
    ELSE IF j \notin used_emails /\ JoinsGroup(list, threshold, group, j)
         THEN FindSimilar(list, threshold, Append(group, j), used_emails, j + 1)
         ELSE FindSimilar(list, threshold, group, used_emails, j + 1)

\* The outer loop of group_emails: for i, email in enumerate(emails)
RECURSIVE GroupLoop(_, _, _, _, _)
GroupLoop(list, threshold, i, used_emails, groups) ==
    IF i > Len(list) THEN groups
    ELSE IF i \in used_emails
         THEN GroupLoop(list, threshold, i + 1, used_emails, groups)
         ELSE LET group == FindSimilar(list, threshold, <<i>>, used_emails, i + 1)
              IN GroupLoop(list, threshold, i + 1, MarkUsed(used_emails, group),
                           Append(groups, group))

\* group_emails
GroupEmails(list, threshold) ==
    IF Len(list) <= 1
    THEN IF list # << >> THEN << <<1>> >> ELSE << >>
    ELSE GroupLoop(list, threshold, 1, {}, << >>)

EmailBatch(batch_emails) == [emails |-> batch_emails, processing_status |-> "pending"]

RECURSIVE Flatten(_)
Flatten(qs) == IF qs = << >> THEN << >> ELSE Head(qs) \o Flatten(Tail(qs))

\* Variant: the items are cut into batches of batch_size whatever their group.
ChunkBySize(groups, size, g, current_batch_emails, out) ==
    LET items == Flatten(groups)
        n == (Len(items) + size - 1) \div size
    IN [b \in 1 .. n |->
          EmailBatch(SubSeq(items, (b - 1) * size + 1, Min(b * size, Len(items))))]

\* Variant: the current batch is never closed before a group is added.
NeverExceeds(current_batch_emails, group, size) == FALSE

\* if current_batch_emails and len(current_batch_emails) + len(group) > self.batch_size
ExceedsBatchSize(current_batch_emails, group, size) ==
    current_batch_emails # << >> /\ Len(current_batch_emails) + Len(group) > size

\* The loop of _create_batches over the similarity groups, and the final batch
RECURSIVE BatchLoop(_, _, _, _, _)
BatchLoop(groups, size, g, current_batch_emails, out) ==
    IF g > Len(groups)
    THEN IF current_batch_emails # << >>
         THEN Append(out, EmailBatch(current_batch_emails)) ELSE out
    ELSE LET group == groups[g]
             closed == ExceedsBatchSize(current_batch_emails, group, size)
             out1 == IF closed THEN Append(out, EmailBatch(current_batch_emails))
                     ELSE out
             current == (IF closed THEN << >> ELSE current_batch_emails) \o group
         IN IF Len(current) >= size
            THEN BatchLoop(groups, size, g + 1, << >>,
                           Append(out1, EmailBatch(current)))
            ELSE BatchLoop(groups, size, g + 1, current, out1)

\* _create_batches
CreateBatches(list, threshold, size) ==
    IF list = << >> THEN << >>
    ELSE BatchLoop(GroupEmails(list, threshold), size, 1, << >>, << >>)

-----------------------------------------------------------------------------
(* src/batch_processor.py: processing a batch.  A batch holds positions of   *)
(* the list its run was given; an email result and an error entry name the  *)
(* email by its position.  Durations (processing_time) are left out.        *)

\* content_key: f"{from}|{subject}|{content[:100]}"
ContentKey(email) ==
    <<email.from, "|", email.subject, "|",
      IF email.content = << >> THEN "" ELSE email.content[1]>>

\* hashlib.md5(content_key.encode()).hexdigest() for the keys of the emails
ContentHash(email) ==
    CASE ContentKey(email) = ContentKey(E1) -> "md5_5d0c"
      [] ContentKey(email) = ContentKey(E3) -> "md5_b7e1"
      [] ContentKey(email) = ContentKey(E4) -> "md5_42fa"
      [] OTHER -> <<"md5", ContentKey(email)>>

\* content_groups[content_hash].append(email): a defaultdict keeps its keys in
\* the order of their first insertion
AppendToGroup(content_groups, content_hash, position) ==
    IF \E k \in 1 .. Len(content_groups) : content_groups[k].content_hash = content_hash
    THEN [k \in 1 .. Len(content_groups) |->
            IF content_groups[k].content_hash = content_hash
            THEN [content_groups[k] EXCEPT
                    !.email_group = Append(content_groups[k].email_group, position)]
            ELSE content_groups[k]]
    ELSE Append(content_groups,
                [content_hash |-> content_hash, email_group |-> <<position>>])

\* for email in batch.emails: ... content_groups[content_hash].append(email)
RECURSIVE ContentGroups(_, _, _, _)
ContentGroups(list, batch_emails, k, content_groups) ==
    IF k > Len(batch_emails) THEN content_groups
    ELSE ContentGroups(list, batch_emails, k + 1,
                       AppendToGroup(content_groups,
                                     ContentHash(list[batch_emails[k]]),
                                     batch_emails[k]))

\* sentiment_func and categorize_func: the labels they give when they return
SentimentFunc(email) ==
    CASE email.id = 1 -> "POSITIVE"
      [] email.id = 5 -> "NEGATIVE"
      [] email.id = 3 -> "NEGATIVE"
      [] OTHER        -> "NEUTRAL"

CategorizeFunc(email, sentiment) ==
    CASE email.id = 1 -> "Billing"
      [] email.id = 5 -> "Complaints"
      [] email.id = 3 -> "Billing"
      [] OTHER        -> "Shipping"

\* Variant: the last member of a group stands for it.
LastMember(email_group) == email_group[Len(email_group)]

\* representative_email = email_group[0]
Representative(email_group) == email_group[1]

\* Variant: two calls are counted as saved for every member of a group.
CallsSavedPerMember(email_group) == Len(email_group) * 2

\* if len(email_group) > 1: api_calls_saved += (len(email_group) - 1) * 2
CallsSaved(email_group) ==
    IF Len(email_group) > 1 THEN (Len(email_group) - 1) * 2 ELSE 0

\* The email_result of a member of a group that was processed
EmailResult(position, sentiment, category, shared) ==
    [email |-> position, sentiment |-> sentiment, category |-> category,
     cached_result |-> shared, error |-> None]

\* The fallback email_result
FallbackResult(position, error_msg) ==
    [email |-> position, sentiment |-> "NEUTRAL", category |-> "General Inquiries",
     cached_result |-> None, error |-> error_msg]

\* An entry of errors
ErrorEntry(list, position, error_msg) ==
    [email |-> position, email_subject |-> list[position].subject,
     email_from |-> list[position].from, error |-> error_msg]

\* Variant: one error entry for a failed group, whatever its size.
OneErrorEntry(list, positions, error_msg) ==
    <<ErrorEntry(list, positions[1], error_msg)>>

\* for email in ...: errors.append({...})
ErrorEntries(list, positions, error_msg) ==
    [k \in 1 .. Len(positions) |-> ErrorEntry(list, positions[k], error_msg)]

\* for email in ...: results.append(<fallback>)
FallbackResults(positions, error_msg) ==
    [k \in 1 .. Len(positions) |-> FallbackResult(positions[k], error_msg)]

\* A call of one of the two functions, as the batch's frame logs it
Call(func, position) == [func |-> func, email |-> position]

\* The locals of _process_single_batch when it starts
NewFrame ==
    [content_groups |-> << >>, g |-> 1, results |-> << >>, errors |-> << >>,
     api_calls_saved |-> 0, calls |-> << >>]

\* The body of the inner try for one group when both functions return
GroupProcessed(list, fr, email_group) ==
    LET representative_email == list[Representative(email_group)]
        sentiment == SentimentFunc(representative_email)
        category == CategorizeFunc(representative_email, sentiment)
    IN [fr EXCEPT
          !.calls = @ \o <<Call("sentiment_func", Representative(email_group)),
                           Call("categorize_func", Representative(email_group))>>,
          !.results = @ \o [k \in 1 .. Len(email_group) |->
                              EmailResult(email_group[k], sentiment, category,
                                          Len(email_group) > 1)],
          !.api_calls_saved = @ + CallsSaved(email_group),
          !.g = @ + 1]

\* The inner try and its handler for one group when func raises
GroupFailed(list, fr, email_group, func) ==
    LET made == IF func = "sentiment_func"
                THEN <<Call("sentiment_func", Representative(email_group))>>
                ELSE <<Call("sentiment_func", Representative(email_group)),
                       Call("categorize_func", Representative(email_group))>>
    IN [fr EXCEPT
          !.calls = @ \o made,
          !.errors = @ \o ErrorEntries(list, email_group, func),
          !.results = @ \o FallbackResults(email_group, func),
          !.g = @ + 1]

\* The outer handler: error entries and fallback results for all emails of
\* the batch
BatchFailed(list, fr, batch_emails, error_msg) ==
    [fr EXCEPT
       !.errors = @ \o ErrorEntries(list, batch_emails, error_msg),
       !.results = @ \o FallbackResults(batch_emails, error_msg)]

\* Variant: total_count is the number of results appended.
BatchResultCountsResults(batch, fr) ==
    [batch_id |-> batch.batch_id,
     success_count |-> Len(fr.results) - Len(fr.errors),
     error_count |-> Len(fr.errors),
     total_count |-> Len(fr.results),
     api_calls_saved |-> fr.api_calls_saved,
     errors |-> fr.errors]

\* return BatchResult(...)
BatchResult(batch, fr) ==
    [batch_id |-> batch.batch_id,
     success_count |-> Len(fr.results) - Len(fr.errors),
     error_count |-> Len(fr.errors),
     total_count |-> Len(batch.emails),
     api_calls_saved |-> fr.api_calls_saved,
     errors |-> fr.errors]

\* The callers of process_emails_batch
Runs == 1 .. NumRuns

\* A caller that is not in process_emails_batch
IdleRun == [phase |-> "idle", emails |-> << >>, batches |-> << >>,
            batch_results |-> << >>, returned |-> None, all_results |-> None]

\* self.processing_stats of a new processor
ZeroProcessingStats ==
    [total_emails_processed |-> 0, total_batches_processed |-> 0,
     total_api_calls_saved |-> 0, average_batch_size |-> 0]

\* The processing state of a new BatchEmailProcessor: nothing submitted,
\* nothing retained
ExecutorInit ==
    /\ max_workers = DefaultMaxWorkers
    /\ active_batches = << >>
    /\ completed_batches = << >>
    /\ processing_stats = ZeroProcessingStats
    /\ runs = [r \in Runs |-> IdleRun]
    /\ futures = << >>

\* BatchEmailProcessor.__init__ with its defaults; nothing grouped or batched
ProcessorInit ==
    /\ batch_size = DefaultBatchSize
    /\ similarity_threshold = DefaultSimilarityThreshold
    /\ emails = << >>
    /\ similarity_groups = << >>
    /\ batches = << >>
    /\ last_call = "none"
    /\ similarity_score = None
    /\ ExecutorInit

-----------------------------------------------------------------------------
(* State *)

Unlocked == 0

IdleFrame ==
    [api_name |-> "", operation |-> << >>, content |-> "", direct |-> FALSE,
     max_retries |-> 0, attempt |-> 0, entered |-> 0, wait_time |-> 0, wake |-> 0,
     invocations |-> 0, sleeps |-> << >>, seen |-> << >>, response |-> None]

NoOp ==
    [kind |-> "none", worker |-> 0, api_name |-> "", operation |-> << >>,
     content |-> "", status |-> "returned", cached |-> FALSE, data |-> None,
     max_retries |-> 0, invocations |-> 0, sleeps |-> << >>, replaced |-> None]

ZeroStats ==
    [total_requests |-> 0, cached_responses |-> 0, rate_limited |-> 0,
     errors |-> 0, last_request |-> << >>]

\* __init__ (the defaultdicts are total maps with their default values)
Init ==
    /\ now = 0
    /\ lock = Unlocked
    /\ rate_limits = [a \in {"huggingface", "openai"} |->
                        IF a = "huggingface" THEN RateLimit(30, 1000, 10000)
                        ELSE RateLimit(20, 500, 5000)]
    /\ request_history = [a \in Services |-> EmptyHistory]
    /\ cache = << >>
    /\ usage_stats = [a \in Services |-> ZeroStats]
    /\ pc = [w \in Workers |-> "idle"]
    /\ frame = [w \in Workers |-> IdleFrame]
    /\ last_op = NoOp
    /\ calls = 0
    /\ ProcessorInit

\* The clock moves on to a later instant.
Tick(instants) ==
    /\ \E t \in instants : t > now /\ now' = t
    /\ UNCHANGED <<lock, rate_limits, request_history, cache, usage_stats, pc, frame,
                   last_op, calls>>
    /\ UNCHANGED processor_vars

Bump(stats, api_name, counter) ==
    [stats EXCEPT ![api_name][counter] = @ + 1]

\* Variant: the request is stamped but not counted.
StampRequest(stats, api_name, t) ==
    [stats EXCEPT ![api_name].last_request = <<t>>]

\* _record_request, the counters part
CountRequest(stats, api_name, t) ==
    [stats EXCEPT ![api_name].total_requests = @ + 1,
                  ![api_name].last_request = <<t>>]

Completed(w, kind, status, cached, data) ==
    [kind |-> kind, worker |-> w, api_name |-> frame[w].api_name,
     operation |-> frame[w].operation, content |-> frame[w].content,
     status |-> status, cached |-> cached, data |-> data,
     max_retries |-> frame[w].max_retries, invocations |-> frame[w].invocations,
     sleeps |-> frame[w].sleeps, replaced |-> None]

-----------------------------------------------------------------------------
(* throttled_request *)

\* The first exclusive section: cache check, prune, admission check, and,
\* when no wait is due, the record.  On a wait the worker sleeps holding the
\* lock and records when it wakes (AdmissionWake).
ThrottledRequest(w, api_name, operation, content) ==
    /\ pc[w] = "idle"
    /\ lock = Unlocked
    /\ calls < MaxCalls
    /\ calls' = calls + 1
    /\ LET cache_key == GenerateCacheKey(content, operation)
           got == GetCachedResponse(cache, cache_key, operation, now)
           history == CleanOldRequests(request_history[api_name], now)
           wait_time == CheckRateLimit(rate_limits, history, api_name, now)
           called == [IdleFrame EXCEPT !.api_name = api_name, !.operation = operation,
                                       !.content = content,
                                       !.max_retries = DefaultMaxRetries,
                                       !.entered = now]
       IN /\ cache' = got.cache
          /\ IF got.data # None
             THEN /\ usage_stats' = Bump(usage_stats, api_name, "cached_responses")
                  /\ last_op' = [NoOp EXCEPT !.kind = "throttled_request", !.worker = w,
                                             !.api_name = api_name,
                                             !.operation = operation,
                                             !.content = content, !.cached = TRUE,
                                             !.data = got.data]
                  /\ UNCHANGED <<now, lock, rate_limits, request_history, pc, frame>>
             ELSE IF wait_time # 0
             THEN /\ usage_stats' = Bump(usage_stats, api_name, "rate_limited")
                  /\ request_history' = [request_history EXCEPT ![api_name] = history]
                  /\ lock' = w
                  /\ pc' = [pc EXCEPT ![w] = "admission_sleep"]
                  /\ frame' = [frame EXCEPT ![w] =
                                 [called EXCEPT !.wait_time = wait_time,
                                                !.wake = now + wait_time]]
                  /\ UNCHANGED <<now, rate_limits, last_op>>
             ELSE /\ request_history' =
                        [request_history EXCEPT ![api_name] = RecordRequest(history, now)]
                  /\ usage_stats' = CountRequest(usage_stats, api_name, now)
                  /\ pc' = [pc EXCEPT ![w] = "execute"]
                  /\ frame' = [frame EXCEPT ![w] = called]
                  /\ UNCHANGED <<now, lock, rate_limits, last_op>>
    /\ UNCHANGED processor_vars

\* Variant: the lock is kept into the outbound call.
AdmissionWakeKeepsLock(w) ==
    /\ pc[w] = "admission_sleep"
    /\ now' = Max(now, frame[w].wake)
    /\ request_history' =
          [request_history EXCEPT ![frame[w].api_name] = RecordRequest(@, now')]
    /\ usage_stats' = CountRequest(usage_stats, frame[w].api_name, now')
    /\ pc' = [pc EXCEPT ![w] = "execute"]
    /\ UNCHANGED <<lock, rate_limits, cache, frame, last_op, calls>>
    /\ UNCHANGED processor_vars

\* time.sleep(wait_time) returns, no earlier than the wake instant; the
\* request is recorded and the lock released.
AdmissionWake(w) ==
    /\ pc[w] = "admission_sleep"
    /\ now' = Max(now, frame[w].wake)
    /\ request_history' =
          [request_history EXCEPT ![frame[w].api_name] = RecordRequest(@, now')]
    /\ usage_stats' = CountRequest(usage_stats, frame[w].api_name, now')
    /\ lock' = Unlocked
    /\ pc' = [pc EXCEPT ![w] = "execute"]
    /\ UNCHANGED <<rate_limits, cache, frame, last_op, calls>>
    /\ UNCHANGED processor_vars

-----------------------------------------------------------------------------
(* _make_request_with_backoff *)

\* A direct call of the executor, as its callers other than throttled_request
\* make it.
MakeRequestWithBackoff(w, max_retries) ==
    /\ pc[w] = "idle"
    /\ calls < MaxDirectCalls
    /\ calls' = calls + 1
    /\ pc' = [pc EXCEPT ![w] = "execute"]
    /\ frame' = [frame EXCEPT ![w] =
                    [IdleFrame EXCEPT !.direct = TRUE, !.max_retries = max_retries]]
    /\ UNCHANGED <<now, lock, rate_limits, request_history, cache, usage_stats, last_op>>
    /\ UNCHANGED processor_vars

\* The executor hands `value` back (status "returned") or lets it escape
\* (status "raised"): to the caller of a direct call, else to throttled_request.
ExecutorEnds(w, f, status, value) ==
    IF f.direct
    THEN /\ pc' = [pc EXCEPT ![w] = "idle"]
         /\ frame' = [frame EXCEPT ![w] = IdleFrame]
         /\ last_op' = [NoOp EXCEPT !.kind = "make_request_with_backoff", !.worker = w,
                                    !.status = status, !.data = value,
                                    !.max_retries = f.max_retries,
                                    !.invocations = f.invocations,
                                    !.sleeps = f.sleeps]
    ELSE /\ pc' = [pc EXCEPT ![w] = IF status = "returned" THEN "cache_write"
                                    ELSE "handle_error"]
         /\ frame' = [frame EXCEPT ![w] = [f EXCEPT !.response = value]]
         /\ UNCHANGED last_op

\* One pass of the for loop: request_func() is invoked and produces `outcome`.
ExecutorAttempt(w, outcome) ==
    /\ pc[w] = "execute"
    /\ LoopContinues(frame[w].attempt, frame[w].max_retries)
    /\ LET body == LoopBody(outcome, frame[w].attempt, frame[w].max_retries)
           f == [frame[w] EXCEPT !.invocations = @ + 1, !.seen = Append(@, outcome)]
       IN IF body.do = "sleep"
          THEN /\ pc' = [pc EXCEPT ![w] = "backoff_sleep"]
               /\ frame' = [frame EXCEPT ![w] =
                              [f EXCEPT !.sleeps = Append(@, body.wait),
                                        !.wake = now + body.wait]]
               /\ UNCHANGED last_op
          ELSE ExecutorEnds(w, f, IF body.do = "return" THEN "returned" ELSE "raised",
                            body.value)
    /\ UNCHANGED <<now, lock, rate_limits, request_history, cache, usage_stats, calls>>
    /\ UNCHANGED processor_vars

\* time.sleep returns and the loop goes to its next pass.
BackoffWake(w) ==
    /\ pc[w] = "backoff_sleep"
    /\ now' = Max(now, frame[w].wake)
    /\ pc' = [pc EXCEPT ![w] = "execute"]
    /\ frame' = [frame EXCEPT ![w].attempt = @ + 1]
    /\ UNCHANGED <<lock, rate_limits, request_history, cache, usage_stats, last_op, calls>>
    /\ UNCHANGED processor_vars

\* The loop is over without a return: raise Exception("Request failed after ...").
ExecutorExhausted(w) ==
    /\ pc[w] = "execute"
    /\ ~LoopContinues(frame[w].attempt, frame[w].max_retries)
    /\ ExecutorEnds(w, frame[w], "raised", "RequestFailed")
    /\ UNCHANGED <<now, lock, rate_limits, request_history, cache, usage_stats, calls>>
    /\ UNCHANGED processor_vars

\* Variant: the result is returned without being stored.
ReturnWithoutCaching(w) ==
    /\ pc[w] = "cache_write"
    /\ lock = Unlocked
    /\ last_op' = Completed(w, "throttled_request", "returned", FALSE,
                            frame[w].response)
    /\ pc' = [pc EXCEPT ![w] = "idle"]
    /\ frame' = [frame EXCEPT ![w] = IdleFrame]
    /\ UNCHANGED <<now, lock, rate_limits, request_history, cache, usage_stats, calls>>
    /\ UNCHANGED processor_vars

\* The second exclusive section: the raw result is cached and returned.
CacheWrite(w) ==
    /\ pc[w] = "cache_write"
    /\ lock = Unlocked
    /\ cache' = CacheResponse(cache,
                              GenerateCacheKey(frame[w].content, frame[w].operation),
                              frame[w].response, now)
    /\ last_op' = [Completed(w, "throttled_request", "returned", FALSE,
                             frame[w].response)
                     EXCEPT !.replaced =
                        LET cache_key == GenerateCacheKey(frame[w].content,
                                                          frame[w].operation)
                        IN IF cache_key \in DOMAIN cache THEN cache[cache_key].data
                           ELSE None]
    /\ pc' = [pc EXCEPT ![w] = "idle"]
    /\ frame' = [frame EXCEPT ![w] = IdleFrame]
    /\ UNCHANGED <<now, lock, rate_limits, request_history, usage_stats, calls>>
    /\ UNCHANGED processor_vars

\* Variant: the handler also stores what it caught under the key.
HandleErrorCachesFailure(w) ==
    /\ pc[w] = "handle_error"
    /\ lock = Unlocked
    /\ usage_stats' = Bump(usage_stats, frame[w].api_name, "errors")
    /\ cache' = CacheResponse(cache,
                              GenerateCacheKey(frame[w].content, frame[w].operation),
                              frame[w].response, now)
    /\ last_op' = Completed(w, "throttled_request", "raised", FALSE,
                            frame[w].response)
    /\ pc' = [pc EXCEPT ![w] = "idle"]
    /\ frame' = [frame EXCEPT ![w] = IdleFrame]
    /\ UNCHANGED <<now, lock, rate_limits, request_history, calls>>
    /\ UNCHANGED processor_vars

\* except Exception: the error is counted and re-raised.
HandleError(w) ==
    /\ pc[w] = "handle_error"
    /\ lock = Unlocked
    /\ usage_stats' = Bump(usage_stats, frame[w].api_name, "errors")
    /\ last_op' = Completed(w, "throttled_request", "raised", FALSE,
                            frame[w].response)
    /\ pc' = [pc EXCEPT ![w] = "idle"]
    /\ frame' = [frame EXCEPT ![w] = IdleFrame]
    /\ UNCHANGED <<now, lock, rate_limits, request_history, cache, calls>>
    /\ UNCHANGED processor_vars

-----------------------------------------------------------------------------
(* clear_cache, update_rate_limits and the cache's own operations *)

\* Variant: clearing the cache also starts the usage counters afresh.
ClearCacheResetsStats(given, operation) ==
    /\ lock = Unlocked
    /\ cache' = Without(cache, KeysToRemove(cache, given, operation))
    /\ usage_stats' = [a \in DOMAIN usage_stats |-> ZeroStats]
    /\ last_op' = [NoOp EXCEPT !.kind = "clear_cache", !.operation = operation,
                               !.cached = given]
    /\ UNCHANGED <<now, lock, rate_limits, request_history, pc, frame, calls>>
    /\ UNCHANGED processor_vars

ClearCache(given, operation) ==
    /\ lock = Unlocked
    /\ cache' = Without(cache, KeysToRemove(cache, given, operation))
    /\ last_op' = [NoOp EXCEPT !.kind = "clear_cache", !.operation = operation,
                               !.cached = given]
    /\ UNCHANGED <<now, lock, rate_limits, request_history, usage_stats, pc, frame, calls>>
    /\ UNCHANGED processor_vars

UpdateRateLimits(api_name, rate_limit) ==
    /\ lock = Unlocked
    /\ rate_limits' = [a \in DOMAIN rate_limits \cup {api_name} |->
                          IF a = api_name THEN rate_limit ELSE rate_limits[a]]
    /\ last_op' = NoOp
    /\ UNCHANGED <<now, lock, request_history, cache, usage_stats, pc, frame, calls>>
    /\ UNCHANGED processor_vars

\* get_usage_stats: a copy of the counters with the cache size and the hit
\* rates, taken under the lock; nothing is changed.
GetUsageStats(w) ==
    /\ pc[w] = "idle"
    /\ lock = Unlocked
    /\ last_op' = [NoOp EXCEPT !.kind = "get_usage_stats", !.worker = w]
    /\ UNCHANGED <<now, lock, rate_limits, request_history, cache, usage_stats, pc,
                   frame, calls>>
    /\ UNCHANGED processor_vars

\* _cache_response under the key of (content, operation)
CachePut(operation, content, data) ==
    /\ LET cache_key == GenerateCacheKey(content, operation)
       IN /\ cache_key \in DOMAIN cache \/ Cardinality(DOMAIN cache) < MaxCacheEntries
          /\ cache' = CacheResponse(cache, cache_key, data, now)
    /\ last_op' = NoOp
    /\ UNCHANGED <<now, lock, rate_limits, request_history, usage_stats, pc, frame, calls>>
    /\ UNCHANGED processor_vars

\* _get_cached_response under the key of (content, operation)
CacheGet(operation, content) ==
    /\ LET cache_key == GenerateCacheKey(content, operation)
           got == GetCachedResponse(cache, cache_key, operation, now)
       IN /\ cache' = got.cache
          /\ last_op' = [NoOp EXCEPT !.kind = "get_cached_response",
                                     !.operation = operation, !.content = content,
                                     !.status = IF cache_key \notin DOMAIN cache
                                                THEN "absent"
                                                ELSE IF cache_key \in DOMAIN got.cache
                                                THEN "found" ELSE "expired",
                                     !.data = got.data]
    /\ UNCHANGED <<now, lock, rate_limits, request_history, usage_stats, pc, frame, calls>>
    /\ UNCHANGED processor_vars

-----------------------------------------------------------------------------
(* group_emails and _create_batches *)

\* self.similarity_grouper.group_emails(emails); similarity_groups is what it
\* returned
CallGroupEmails ==
    /\ similarity_groups' = GroupEmails(emails, similarity_threshold)
    /\ last_call' = "group_emails"
    /\ UNCHANGED <<batch_size, similarity_threshold, emails, batches, similarity_score>>
    /\ UNCHANGED executor_vars
    /\ UNCHANGED limiter_vars

\* self._calculate_similarity(emails[0], emails[1]); similarity_score is what it
\* returned
CallCalculateSimilarity ==
    /\ Len(emails) = 2
    /\ similarity_score' = CalculateSimilarity(emails[1], emails[2])
    /\ last_call' = "_calculate_similarity"
    /\ UNCHANGED <<batch_size, similarity_threshold, emails, similarity_groups, batches>>
    /\ UNCHANGED executor_vars
    /\ UNCHANGED limiter_vars

\* self._create_batches(emails); batches is what it returned, similarity_groups
\* the groups it built them from
CallCreateBatches ==
    /\ similarity_groups' = IF emails = << >> THEN << >>
                            ELSE GroupEmails(emails, similarity_threshold)
    /\ batches' = CreateBatches(emails, similarity_threshold, batch_size)
    /\ last_call' = "_create_batches"
    /\ UNCHANGED <<batch_size, similarity_threshold, emails, similarity_score>>
    /\ UNCHANGED executor_vars
    /\ UNCHANGED limiter_vars

-----------------------------------------------------------------------------
(* process_emails_batch and _process_single_batch *)

\* hashlib.md5(datetime.now().isoformat().encode()).hexdigest()[:8] at instant t
GenerateBatchId(t) == <<"md5_8", t>>

\* EmailBatch(emails=..., batch_id=self._generate_batch_id(),
\* created_at=datetime.now()) at instant t
CreatedBatch(batch, t) ==
    [emails |-> batch.emails, batch_id |-> GenerateBatchId(t), created_at |-> t,
     processing_status |-> batch.processing_status, results |-> None]

\* The instant of the k-th creation when the clock moves on by ticks[k] before it
RECURSIVE InstantOf(_, _, _)
InstantOf(t, ticks, k) == IF k = 0 THEN t ELSE InstantOf(t, ticks, k - 1) + ticks[k]

\* executor.submit(self._process_single_batch, batch, ...)
Submitted(r, batch) ==
    [run |-> r, batch |-> batch, pc |-> "submitted", frame |-> NewFrame,
     batch_result |-> None]

FuturesOf(r) == {f \in 1 .. Len(futures) : futures[f].run = r}

Running(f) == futures[f].pc \in {"grouping", "groups"}

\* process_emails_batch up to the submission of its batches; an empty list
\* is answered at once
ProcessEmailsBatch(r, list) ==
    /\ runs[r].phase = "idle"
    /\ IF list = << >>
       THEN /\ runs' = [runs EXCEPT ![r] = [IdleRun EXCEPT !.phase = "returned",
                                                          !.returned = << >>]]
            /\ UNCHANGED <<now, futures>>
       ELSE LET created == CreateBatches(list, similarity_threshold, batch_size)
            IN \E ticks \in [1 .. Len(created) -> 0 .. 1] :
                 /\ futures' = futures \o
                        [k \in 1 .. Len(created) |->
                           Submitted(r, CreatedBatch(created[k],
                                                     InstantOf(now, ticks, k)))]
                 /\ now' = InstantOf(now, ticks, Len(created))
                 /\ runs' = [runs EXCEPT ![r] =
                               [IdleRun EXCEPT
                                  !.phase = "collecting",
                                  !.emails = list,
                                  !.batches = [k \in 1 .. Len(created) |->
                                                 Len(futures) + k]]]
    /\ UNCHANGED <<lock, rate_limits, request_history, cache, usage_stats, pc, frame,
                   last_op, calls>>
    /\ UNCHANGED <<batch_size, similarity_threshold, emails, similarity_groups,
                   batches, last_call, similarity_score>>
    /\ UNCHANGED <<max_workers, active_batches, completed_batches, processing_stats>>

\* Variant: a batch that starts keeps its status.
StartedStaysPending(batch) == batch

\* batch.processing_status = "processing"
Started(batch) == [batch EXCEPT !.processing_status = "processing"]

\* Variant: the pool starts a thread for every batch submitted to it.
WorkerAlwaysFree(r) == TRUE

\* ThreadPoolExecutor(max_workers=self.max_workers), made by the call r: a
\* worker of that pool is free while fewer than max_workers of the call's
\* batches are being run
WorkerFree(r) ==
    Cardinality({h \in FuturesOf(r) : Running(h)}) < max_workers

\* A free worker of the run's pool takes the oldest batch that waits:
\* _process_single_batch up to the status change
StartBatch(f) ==
    /\ f \in 1 .. Len(futures)
    /\ futures[f].pc = "submitted"
    /\ \A h \in FuturesOf(futures[f].run) : h < f => futures[h].pc # "submitted"
    /\ WorkerFree(futures[f].run)
    /\ futures' = [futures EXCEPT ![f].batch = Started(@), ![f].pc = "grouping"]
    /\ UNCHANGED limiter_vars
    /\ UNCHANGED <<batch_size, similarity_threshold, emails, similarity_groups,
                   batches, last_call, similarity_score>>
    /\ UNCHANGED <<max_workers, active_batches, completed_batches, processing_stats,
                   runs>>

\* The loop that builds content_groups
BuildContentGroups(f) ==
    /\ f \in 1 .. Len(futures)
    /\ futures[f].pc = "grouping"
    /\ futures' = [futures EXCEPT
                     ![f].frame.content_groups =
                         ContentGroups(runs[futures[f].run].emails,
                                       futures[f].batch.emails, 1, << >>),
                     ![f].pc = "groups"]
    /\ UNCHANGED limiter_vars
    /\ UNCHANGED <<batch_size, similarity_threshold, emails, similarity_groups,
                   batches, last_call, similarity_score>>
    /\ UNCHANGED <<max_workers, active_batches, completed_batches, processing_stats,
                   runs>>

AtGroup(f) ==
    /\ f \in 1 .. Len(futures)
    /\ futures[f].pc = "groups"
    /\ futures[f].frame.g <= Len(futures[f].frame.content_groups)

\* One round of the loop over content_groups: outcome is "returns" when both
\* functions return, else the function that raises
ProcessGroup(f, outcome) ==
    /\ AtGroup(f)
    /\ LET list == runs[futures[f].run].emails
           fr == futures[f].frame
           email_group == fr.content_groups[fr.g].email_group
       IN futures' = [futures EXCEPT ![f].frame =
                        IF outcome = "returns"
                        THEN GroupProcessed(list, fr, email_group)
                        ELSE GroupFailed(list, fr, email_group, outcome)]
    /\ UNCHANGED limiter_vars
    /\ UNCHANGED <<batch_size, similarity_threshold, emails, similarity_groups,
                   batches, last_call, similarity_score>>
    /\ UNCHANGED <<max_workers, active_batches, completed_batches, processing_stats,
                   runs>>

\* After the last group: the batch is completed and its BatchResult returned
CompleteBatch(f) ==
    /\ f \in 1 .. Len(futures)
    /\ futures[f].pc = "groups"
    /\ futures[f].frame.g > Len(futures[f].frame.content_groups)
    /\ LET batch == [futures[f].batch EXCEPT
                       !.processing_status = "completed",
                       !.results = futures[f].frame.results]
       IN futures' = [futures EXCEPT
                        ![f].batch = batch,
                        ![f].batch_result = BatchResult(batch, futures[f].frame),
                        ![f].pc = "done"]
    /\ UNCHANGED limiter_vars
    /\ UNCHANGED <<batch_size, similarity_threshold, emails, similarity_groups,
                   batches, last_call, similarity_score>>
    /\ UNCHANGED <<max_workers, active_batches, completed_batches, processing_stats,
                   runs>>

\* The outer handler and the return that follows it
FailBatch(f, fr, error_msg) ==
    LET batch == [futures[f].batch EXCEPT !.processing_status = "failed"]
        failed == BatchFailed(runs[futures[f].run].emails, fr, batch.emails, error_msg)
    IN futures' = [futures EXCEPT
                     ![f].batch = batch,
                     ![f].frame = failed,
                     ![f].batch_result = BatchResult(batch, failed),
                     ![f].pc = "done"]

\* An exception while content_groups is built (a MemoryError, an email whose
\* content cannot be sliced)
GroupingRaises(f) ==
    /\ f \in 1 .. Len(futures)
    /\ futures[f].pc = "grouping"
    /\ FailBatch(f, futures[f].frame, "grouping")
    /\ UNCHANGED limiter_vars
    /\ UNCHANGED <<batch_size, similarity_threshold, emails, similarity_groups,
                   batches, last_call, similarity_score>>
    /\ UNCHANGED <<max_workers, active_batches, completed_batches, processing_stats,
                   runs>>

\* sentiment_func raises for a group and the group's handler raises in turn
\* at error_msg = str(e), before it has appended anything
HandlerRaises(f) ==
    /\ AtGroup(f)
    /\ LET fr == futures[f].frame
           email_group == fr.content_groups[fr.g].email_group
       IN FailBatch(f, [fr EXCEPT !.calls = Append(@, Call("sentiment_func",
                                                Representative(email_group)))],
                    "handler")
    /\ UNCHANGED limiter_vars
    /\ UNCHANGED <<batch_size, similarity_threshold, emails, similarity_groups,
                   batches, last_call, similarity_score>>
    /\ UNCHANGED <<max_workers, active_batches, completed_batches, processing_stats,
                   runs>>

\* for future in as_completed(future_to_batch): result = future.result();
\* batch_results.append(result); with self.lock: ...
CollectResult(r, f) ==
    /\ runs[r].phase = "collecting"
    /\ f \in FuturesOf(r)
    /\ futures[f].pc = "done"
    /\ LET result == futures[f].batch_result
           batch_id == futures[f].batch.batch_id
       IN /\ runs' = [runs EXCEPT ![r].batch_results = Append(@, result)]
          /\ active_batches' = [k \in DOMAIN active_batches \cup {batch_id} |->
                                  IF k = batch_id THEN f ELSE active_batches[k]]
          /\ completed_batches' = Append(completed_batches, result)
    /\ futures' = [futures EXCEPT ![f].pc = "collected"]
    /\ UNCHANGED limiter_vars
    /\ UNCHANGED <<batch_size, similarity_threshold, emails, similarity_groups,
                   batches, last_call, similarity_score>>
    /\ UNCHANGED <<max_workers, processing_stats>>

RECURSIVE SumOf(_, _)
SumOf(results, field) ==
    IF results = << >> THEN 0
    ELSE Head(results)[field] + SumOf(Tail(results), field)

\* Variant: a total is set to the amount of the run.
SetTo(total, amount) == amount

\* self.processing_stats[...] += ...
AddTo(total, amount) == total + amount

\* _update_processing_stats, in one section under self.lock; the average is
\* in 1/10000
UpdatedStats(stats, batch_results) ==
    LET total_emails == SumOf(batch_results, "total_count")
        total_api_calls_saved == SumOf(batch_results, "api_calls_saved")
        emails_processed == AddTo(stats.total_emails_processed, total_emails)
        batches_processed == AddTo(stats.total_batches_processed, Len(batch_results))
    IN [total_emails_processed |-> emails_processed,
        total_batches_processed |-> batches_processed,
        total_api_calls_saved |-> AddTo(stats.total_api_calls_saved,
                                        total_api_calls_saved),
        average_batch_size |-> IF batches_processed > 0
                               THEN (10000 * emails_processed) \div batches_processed
                               ELSE stats.average_batch_size]

\* The pool has shut down: self._update_processing_stats(batch_results) and
\* return batch_results
UpdateProcessingStats(r) ==
    /\ runs[r].phase = "collecting"
    /\ \A f \in FuturesOf(r) : futures[f].pc = "collected"
    /\ processing_stats' = UpdatedStats(processing_stats, runs[r].batch_results)
    /\ runs' = [runs EXCEPT ![r].phase = "returned",
                            ![r].returned = runs[r].batch_results]
    /\ UNCHANGED limiter_vars
    /\ UNCHANGED <<batch_size, similarity_threshold, emails, similarity_groups,
                   batches, last_call, similarity_score>>
    /\ UNCHANGED <<max_workers, active_batches, completed_batches, futures>>

\* The loop of process_emails_in_batches over batch_results: the results of
\* the batch that active_batches holds under the result's batch_id, each with
\* the batch it comes from.  batch.results is set, and not empty, exactly in a
\* completed batch.
RECURSIVE FlattenedResults(_, _, _)
FlattenedResults(batch_results, k, all_results) ==
    IF k > Len(batch_results) THEN all_results
    ELSE LET batch_id == batch_results[k].batch_id
             extended ==
                 IF batch_id \in DOMAIN active_batches
                 THEN LET f == active_batches[batch_id]
                          batch == futures[f].batch
                      IN IF batch.processing_status = "completed"
                         THEN all_results \o
                              [n \in 1 .. Len(batch.results) |->
                                 [batch |-> f, result |-> batch.results[n]]]
                         ELSE all_results
                 ELSE all_results
         IN FlattenedResults(batch_results, k + 1, extended)

\* process_emails_in_batches after its call of process_emails_batch returned:
\* it flattens the results and returns them
FlattenResults(r) ==
    /\ runs[r].phase = "returned"
    /\ runs' = [runs EXCEPT
                  ![r].phase = "flattened",
                  ![r].all_results = FlattenedResults(runs[r].returned, 1, << >>)]
    /\ UNCHANGED limiter_vars
    /\ UNCHANGED <<batch_size, similarity_threshold, emails, similarity_groups,
                   batches, last_call, similarity_score>>
    /\ UNCHANGED <<max_workers, active_batches, completed_batches, processing_stats,
                   futures>>

-----------------------------------------------------------------------------
(* Specifications *)

ThrottledOps == {Sentiment}
ThrottledContents == {"body_a"}
CacheOps == {Sentiment, Categorization, SentimentV2, EmptyOp}
\* The (operation, content) pairs the cache is read and written under
CacheInputs ==
    {<<Sentiment, "body_a">>, <<Sentiment, "body_b">>, <<Categorization, "body_a">>,
     <<SentimentV2, "body_a">>, <<EmptyOp, "body_a">>}
CacheValues == {"result", None}
CacheInstants == {0, 1800, 1801, 3600, 3601}

\* The throttled path, one caller at a time, with its administration.
\* update_rate_limits installs the policy for openai; test_api stays without.
Next ==
    \/ pc[1] # "cache_write" /\ Tick(Instants)
    \/ \E a \in Services, o \in ThrottledOps, c \in ThrottledContents :
          ThrottledRequest(1, a, o, c)
    \/ AdmissionWake(1)
    \/ \E out \in ThrottledOutcomes : ExecutorAttempt(1, out)
    \/ CacheWrite(1)
    \/ \E o \in ThrottledOps : pc[1] = "idle" /\ ClearCache(TRUE, o)
    \/ pc[1] = "idle" /\ ClearCache(FALSE, EmptyOp)
    \/ \E rl \in Policies : pc[1] = "idle" /\ UpdateRateLimits("openai", rl)

Spec == Init /\ [][Next]_vars

\* The response cache on its own
NextCache ==
    \/ Tick(CacheInstants)
    \/ \E i \in CacheInputs, d \in CacheValues : CachePut(i[1], i[2], d)
    \/ \E i \in CacheInputs : CacheGet(i[1], i[2])
    \/ \E o \in CacheOps : ClearCache(TRUE, o)
    \/ ClearCache(FALSE, EmptyOp)

\* The limiter after throttled_request("test_api", "sentiment", "body_a", f)
\* with f returning None at once, followed by clear_cache(): one request on
\* record, nothing cached.
InitCache ==
    /\ now = 0
    /\ lock = Unlocked
    /\ rate_limits = [a \in {"huggingface", "openai"} |->
                        IF a = "huggingface" THEN RateLimit(30, 1000, 10000)
                        ELSE RateLimit(20, 500, 5000)]
    /\ request_history = [a \in Services |->
                            IF a = "test_api" THEN RecordRequest(EmptyHistory, 0)
                            ELSE EmptyHistory]
    /\ cache = << >>
    /\ usage_stats = CountRequest([a \in Services |-> ZeroStats], "test_api", 0)
    /\ pc = [w \in Workers |-> "idle"]
    /\ frame = [w \in Workers |-> IdleFrame]
    /\ last_op = [NoOp EXCEPT !.kind = "clear_cache"]
    /\ calls = 1
    /\ ProcessorInit

SpecCache == InitCache /\ [][NextCache]_vars

\* The backoff executor on its own
NextBackoff ==
    \/ \E w \in {1}, n \in 0 .. MaxDirectRetries : MakeRequestWithBackoff(w, n)
    \/ \E w \in {1}, out \in Outcomes : ExecutorAttempt(w, out)
    \/ \E w \in {1} : BackoffWake(w)
    \/ \E w \in {1} : ExecutorExhausted(w)

SpecBackoff == Init /\ [][NextBackoff]_vars

\* Several workers in the throttled path at once, as the batch processor's
\* pool runs them, with the administration calls in between.  The policy
\* installed for openai admits one request per window.
ConcOutcomes == {Plain("result"), Ok200}
ConcPolicies == {RateLimit(1, 1, 1)}
ConcInstants == {30}

NextConc ==
    \/ Tick(ConcInstants)
    \/ \E w \in Workers, a \in Services, o \in ThrottledOps, c \in ThrottledContents :
          ThrottledRequest(w, a, o, c)
    \/ \E w \in Workers : AdmissionWake(w)
    \/ \E w \in Workers, out \in ConcOutcomes : ExecutorAttempt(w, out)
    \/ \E w \in Workers : CacheWrite(w)
    \/ \E w \in Workers : GetUsageStats(w)
    \/ ClearCache(FALSE, EmptyOp)
    \/ \E rl \in ConcPolicies : UpdateRateLimits("openai", rl)

SpecConc == Init /\ [][NextConc]_vars

\* The throttled path with outbound calls that fail, one caller at a time,
\* with the administration calls in between.
ErrOutcomes == {Plain("result"), Raises("ConnectionError")}

NextErr ==
    \/ Tick(ConcInstants)
    \/ \E a \in Services, o \in ThrottledOps, c \in ThrottledContents :
          ThrottledRequest(1, a, o, c)
    \/ AdmissionWake(1)
    \/ \E out \in ErrOutcomes : ExecutorAttempt(1, out)
    \/ BackoffWake(1)
    \/ CacheWrite(1)
    \/ HandleError(1)
    \/ \E w \in Workers \ {1} : GetUsageStats(w)
    \/ ClearCache(FALSE, EmptyOp)
    \/ \E rl \in ConcPolicies : UpdateRateLimits("openai", rl)

SpecErr == Init /\ [][NextErr]_vars

\* The throttled path with outbound calls that are answered 500 or 429, one
\* caller at a time, under the default policies.
RetryOutcomes == {Ok200, Error500, TooMany(None)}

NextRetry ==
    \/ pc[1] = "idle" /\ Tick(ConcInstants)
    \/ \E a \in Services, o \in ThrottledOps, c \in ThrottledContents :
          ThrottledRequest(1, a, o, c)
    \/ \E out \in RetryOutcomes : ExecutorAttempt(1, out)
    \/ BackoffWake(1)
    \/ ExecutorExhausted(1)
    \/ CacheWrite(1)
    \/ HandleError(1)

SpecRetry == Init /\ [][NextRetry]_vars

\* Concurrent callers under a policy of one request per minute for openai
\* whose hour and day limits (the defaults) stay out of reach; the policy is
\* installed before the first call.  A result of None is never served from
\* the cache, so every call is a miss.
MinuteInstants == {1, MinuteHorizon, MinuteHorizon + 1}
MinuteOutcomes == {Plain(None)}

NextMinute ==
    \/ Tick(MinuteInstants)
    \/ calls = 0 /\ rate_limits["openai"].requests_per_minute # 1
          /\ UpdateRateLimits("openai", RateLimit(1, 500, 5000))
    \/ \E w \in Workers, o \in ThrottledOps, c \in ThrottledContents :
          /\ rate_limits["openai"].requests_per_minute = 1
          /\ ThrottledRequest(w, "openai", o, c)
    \/ \E w \in Workers : AdmissionWake(w)
    \/ \E w \in Workers, out \in MinuteOutcomes : ExecutorAttempt(w, out)
    \/ \E w \in Workers : CacheWrite(w)

SpecMinute == Init /\ [][NextMinute]_vars

\* The grouper and the batch builder on their own, for a processor built with
\* a batch size and a threshold of its caller's choice and a list of emails
\* handed to it.
Thresholds == {DefaultSimilarityThreshold, 8000, MaxSimilarity}
BatchSizes == 1 .. MaxBatchSize
EmailLists == UNION {[1 .. n -> EmailPool] : n \in 0 .. MaxEmails}

InitBatch ==
    /\ now = 0
    /\ lock = Unlocked
    /\ rate_limits = [a \in {"huggingface", "openai"} |->
                        IF a = "huggingface" THEN RateLimit(30, 1000, 10000)
                        ELSE RateLimit(20, 500, 5000)]
    /\ request_history = [a \in Services |-> EmptyHistory]
    /\ cache = << >>
    /\ usage_stats = [a \in Services |-> ZeroStats]
    /\ pc = [w \in Workers |-> "idle"]
    /\ frame = [w \in Workers |-> IdleFrame]
    /\ last_op = NoOp
    /\ calls = 0
    /\ batch_size \in BatchSizes
    /\ similarity_threshold \in Thresholds
    /\ emails \in EmailLists
    /\ similarity_groups = << >>
    /\ batches = << >>
    /\ last_call = "none"
    /\ similarity_score = None
    /\ ExecutorInit

NextBatch ==
    \/ CallGroupEmails
    \/ CallCreateBatches

SpecBatch == InitBatch /\ [][NextBatch]_vars

\* The limiter as constructed, for the specifications of the batch processor
LimiterInit ==
    /\ now = 0
    /\ lock = Unlocked
    /\ rate_limits = [a \in {"huggingface", "openai"} |->
                        IF a = "huggingface" THEN RateLimit(30, 1000, 10000)
                        ELSE RateLimit(20, 500, 5000)]
    /\ request_history = [a \in Services |-> EmptyHistory]
    /\ cache = << >>
    /\ usage_stats = [a \in Services |-> ZeroStats]
    /\ pc = [w \in Workers |-> "idle"]
    /\ frame = [w \in Workers |-> IdleFrame]
    /\ last_op = NoOp
    /\ calls = 0

\* The score of a pair of emails, and the grouping of the pair.
ScorePool == {E1, E2, E3, E4, E5, E6, E7, E8, E9}
EmailPairs == [1 .. 2 -> ScorePool]

InitScore ==
    /\ LimiterInit
    /\ batch_size = DefaultBatchSize
    /\ similarity_threshold \in Thresholds
    /\ emails \in EmailPairs
    /\ similarity_groups = << >>
    /\ batches = << >>
    /\ last_call = "none"
    /\ similarity_score = None
    /\ ExecutorInit

NextScore ==
    \/ CallCalculateSimilarity
    \/ CallGroupEmails

SpecScore == InitScore /\ [][NextScore]_vars

\* Runs of process_emails_batch by one caller, with every failure of the two
\* functions and of the batch.
ProcessLists ==
    {<< >>, <<E1, E5, E3, E4>>, <<E1, E1, E1, E3, E4>>, <<E1, E1, E1, E4, E4>>,
     <<E4, E1, E1>>}
RunBatchSizes == {2, DefaultBatchSize}
GroupOutcomes == {"returns", "sentiment_func", "categorize_func"}

InitProcess ==
    /\ LimiterInit
    /\ batch_size \in RunBatchSizes
    /\ similarity_threshold = DefaultSimilarityThreshold
    /\ emails = << >>
    /\ similarity_groups = << >>
    /\ batches = << >>
    /\ last_call = "none"
    /\ similarity_score = None
    /\ ExecutorInit

NextProcess ==
    \/ \E list \in ProcessLists : ProcessEmailsBatch(1, list)
    \/ \E f \in 1 .. Len(futures) : StartBatch(f)
    \/ \E f \in 1 .. Len(futures) : BuildContentGroups(f)
    \/ \E f \in 1 .. Len(futures), outcome \in GroupOutcomes : ProcessGroup(f, outcome)
    \/ \E f \in 1 .. Len(futures) : CompleteBatch(f)
    \/ \E f \in 1 .. Len(futures) : GroupingRaises(f)
    \/ \E f \in 1 .. Len(futures) : HandlerRaises(f)
    \/ \E f \in 1 .. Len(futures) : CollectResult(1, f)
    \/ UpdateProcessingStats(1)
    \/ FlattenResults(1)

SpecProcess == InitProcess /\ [][NextProcess]_vars

\* The threads of a run keep running: a worker of the pool that can take a
\* step takes one (sentiment_func and categorize_func return or raise), and
\* so does the caller's thread in its as_completed loop and after it.
FairProcess ==
    /\ WF_vars(\E f \in 1 .. Len(futures) :
                 \/ StartBatch(f)
                 \/ BuildContentGroups(f)
                 \/ \E outcome \in GroupOutcomes : ProcessGroup(f, outcome)
                 \/ CompleteBatch(f))
    /\ WF_vars(\E f \in 1 .. Len(futures) : CollectResult(1, f))
    /\ WF_vars(UpdateProcessingStats(1))

SpecLive == InitProcess /\ [][NextProcess]_vars /\ FairProcess

\* Concurrent runs of process_emails_batch on one processor, the two
\* functions returning.
RunLists == {<< >>, <<E4, E1, E1>>}

NextRuns ==
    \/ \E r \in Runs, list \in RunLists : ProcessEmailsBatch(r, list)
    \/ \E f \in 1 .. Len(futures) : StartBatch(f)
    \/ \E f \in 1 .. Len(futures) : BuildContentGroups(f)
    \/ \E f \in 1 .. Len(futures) : ProcessGroup(f, "returns")
    \/ \E f \in 1 .. Len(futures) : CompleteBatch(f)
    \/ \E r \in Runs, f \in 1 .. Len(futures) : CollectResult(r, f)
    \/ \E r \in Runs : UpdateProcessingStats(r)
    \/ \E r \in Runs : FlattenResults(r)

SpecRuns == InitProcess /\ [][NextRuns]_vars

\* Overlapping calls on a processor built with max_workers=1 or with the
\* default: with one worker the pool of a call is smaller than the number of
\* its batches.
PoolSizes == {1, DefaultMaxWorkers}

InitPool ==
    /\ LimiterInit
    /\ batch_size \in RunBatchSizes
    /\ similarity_threshold = DefaultSimilarityThreshold
    /\ emails = << >>
    /\ similarity_groups = << >>
    /\ batches = << >>
    /\ last_call = "none"
    /\ similarity_score = None
    /\ max_workers \in PoolSizes
    /\ active_batches = << >>
    /\ completed_batches = << >>
    /\ processing_stats = ZeroProcessingStats
    /\ runs = [r \in Runs |-> IdleRun]
    /\ futures = << >>

SpecPool == InitPool /\ [][NextRuns]_vars

-----------------------------------------------------------------------------
(* Properties *)

KeyOf(operation, content) == GenerateCacheKey(content, operation)

\* The operation component of a key: what stands before its last ':'
OperationOf(cache_key) == SubSeq(cache_key, 1, Len(cache_key) - 2)

Last(q) == q[Len(q)]

\* A throttled call with these arguments has just returned normally and
\* nothing else was done on the limiter since.
JustReturned(operation, content) ==
    /\ last_op.kind = "throttled_request"
    /\ last_op.status = "returned"
    /\ last_op.operation = operation
    /\ last_op.content = content

\* The step is a call served from the cache: flagged, no admission, no
\* record, no outbound call, one more cached response.
ServedFromCache(w, api_name, cache_key) ==
    /\ last_op'.kind = "throttled_request"
    /\ last_op'.cached
    /\ last_op'.data = cache[cache_key].data
    /\ last_op'.invocations = 0
    /\ pc'[w] = "idle"
    /\ request_history' = request_history
    /\ usage_stats' = Bump(usage_stats, api_name, "cached_responses")

\* C1: the second of two successive throttled_request calls with identical
\* (service, operation, content), made while the entry is younger than the
\* operation's TTL, is served from the cache: cached = TRUE with the stored
\* value, no outbound call, no timestamp appended, total_requests unchanged
\* and cached_responses one higher.
C1_SecondIdenticalCallIsCached ==
    [][\A a \in Services, o \in ThrottledOps, c \in ThrottledContents :
         ( /\ ThrottledRequest(1, a, o, c)
           /\ JustReturned(o, c)
           /\ last_op.api_name = a
           /\ KeyOf(o, c) \in DOMAIN cache
           /\ now - cache[KeyOf(o, c)].timestamp < CacheTtlFor(o) )
         => ServedFromCache(1, a, KeyOf(o, c))]_vars

\* C1, for calls whose first result is not None: the same statement.
C1_HoldsForValues ==
    [][\A a \in Services, o \in ThrottledOps, c \in ThrottledContents :
         ( /\ ThrottledRequest(1, a, o, c)
           /\ JustReturned(o, c)
           /\ last_op.api_name = a
           /\ last_op.data # None
           /\ KeyOf(o, c) \in DOMAIN cache
           /\ now - cache[KeyOf(o, c)].timestamp < CacheTtlFor(o) )
         => ServedFromCache(1, a, KeyOf(o, c))]_vars

\* The minute window of worker w's service binds at the check it made on entry.
MinuteWindowBinds(w) ==
    LET a == frame[w].api_name
        q == request_history[a].minute
    IN /\ a \in DOMAIN rate_limits
       /\ Len(q) >= rate_limits[a].requests_per_minute
       /\ frame[w].entered - q[1] < MinuteHorizon

\* C2, while the caller sleeps: the wait is 60 s minus the age of the oldest
\* timestamp of the minute window.
C2_WaitFromOldest ==
    \A w \in Workers :
        (pc[w] = "admission_sleep" /\ MinuteWindowBinds(w)) =>
            LET oldest == request_history[frame[w].api_name].minute[1]
            IN /\ frame[w].wait_time = MinuteHorizon - (frame[w].entered - oldest)
               /\ frame[w].wake = oldest + MinuteHorizon

\* C2, when the sleep ends: the request is recorded, and then executed, no
\* earlier than 60 s after the oldest timestamp, and nothing was executed before.
C2_RecordedAfterWait ==
    \A w \in Workers :
        (pc[w] = "admission_sleep" /\ pc'[w] # "admission_sleep" /\ MinuteWindowBinds(w)) =>
            LET a == frame[w].api_name
                q == request_history[a].minute
            IN /\ now' >= q[1] + MinuteHorizon
               /\ request_history'[a].minute = Append(q, now')
               /\ frame[w].invocations = 0
               /\ pc'[w] = "execute"

\* C2: with requests_per_minute = N and N timestamps in the minute window, a
\* cache-missing call waits 60 s minus the age of the oldest timestamp of
\* the window before it is recorded and executed.
C2_MinuteLimitDelay == []C2_WaitFromOldest /\ [][C2_RecordedAfterWait]_vars

\* Scenario A: policy 2 per minute, calls at 0, 1 and 1: the third is
\* recorded at 60, which is 60 s after the first and 59 s after the second.
C2_ScenarioA ==
    /\ pc[1] = "execute"
    /\ frame[1].api_name = "openai"
    /\ rate_limits["openai"].requests_per_minute = 2
    /\ frame[1].entered = 1
    /\ frame[1].wait_time = 59
    /\ request_history["openai"].minute = <<0, 1, 60>>

\* The wait the admission check owes on a pruned history at instant t: that
\* of the first window, in the order minute, hour, day, whose count has
\* reached its limit and whose oldest entry has not left the horizon.
FirstBindingWait(rl, history, t) ==
    LET Binds(q, limit, horizon) == Len(q) >= limit /\ horizon - (t - q[1]) > 0
        Remaining(q, horizon) == horizon - (t - q[1])
    IN IF Binds(history.minute, rl.requests_per_minute, MinuteHorizon)
       THEN Remaining(history.minute, MinuteHorizon)
       ELSE IF Binds(history.hour, rl.requests_per_hour, HourHorizon)
       THEN Remaining(history.hour, HourHorizon)
       ELSE IF Binds(history.day, rl.requests_per_day, DayHorizon)
       THEN Remaining(history.day, DayHorizon)
       ELSE 0

\* C3: the admission check returns the wait of the first binding window in
\* the order minute, hour, day, and not the largest of the binding waits.
C3_FirstBindingWindowWins ==
    [][\A w \in Workers :
         ( /\ pc[w] = "idle"
           /\ pc'[w] \in {"admission_sleep", "execute"}
           /\ ~frame'[w].direct
           /\ frame'[w].api_name \in DOMAIN rate_limits )
         => LET a == frame'[w].api_name
            IN /\ frame'[w].wait_time =
                     FirstBindingWait(rate_limits[a],
                                      CleanOldRequests(request_history[a], now), now)
               /\ (pc'[w] = "admission_sleep") = (frame'[w].wait_time > 0)]_vars

\* The minute and the hour window bind together and the caller sleeps the
\* minute wait, the shorter one.
C3_MinuteBeforeHour ==
    \E w \in Workers :
        /\ pc[w] = "admission_sleep"
        /\ MinuteWindowBinds(w)
        /\ LET a == frame[w].api_name
               q == request_history[a].hour
           IN /\ Len(q) >= rate_limits[a].requests_per_hour
              /\ frame[w].wait_time = MinuteHorizon - (frame[w].entered - q[1])
              /\ frame[w].wait_time < HourHorizon - (frame[w].entered - q[1])

\* C4: a call for a service without a policy never sleeps before it is
\* recorded and never counts as rate limited, whatever its history.
C4_NoPolicyNoDelay ==
    [][ /\ \A w \in Workers :
             ( /\ pc[w] = "idle"
               /\ pc'[w] # "idle"
               /\ ~frame'[w].direct
               /\ frame'[w].api_name \notin DOMAIN rate_limits )
             => /\ pc'[w] = "execute"
                /\ frame'[w].wait_time = 0
                /\ lock' = Unlocked
                /\ now' = now
                /\ Last(request_history'[frame'[w].api_name].minute) = now
        /\ \A a \in Services \ DOMAIN rate_limits :
             usage_stats'[a].rate_limited = usage_stats[a].rate_limited ]_vars

\* Three requests of a service without a policy recorded in the same
\* second, none of them delayed.
C4_ManyUndelayed ==
    /\ "test_api" \notin DOMAIN rate_limits
    /\ request_history["test_api"].minute = <<0, 0, 0>>
    /\ usage_stats["test_api"].total_requests = 3
    /\ usage_stats["test_api"].rate_limited = 0

\* The TTL of each operation, in seconds
TtlSeconds(operation) == IF operation = Categorization THEN 1800 ELSE 3600

\* C5 as stated: a get of an entry whose age is equal to or greater than the
\* operation's TTL returns absent and removes the entry.
C5_AbsentFromTtlOn ==
    [][\A i \in CacheInputs :
         ( /\ CacheGet(i[1], i[2])
           /\ KeyOf(i[1], i[2]) \in DOMAIN cache
           /\ now - cache[KeyOf(i[1], i[2])].timestamp >= TtlSeconds(i[1]) )
         => /\ last_op'.data = None
            /\ KeyOf(i[1], i[2]) \notin DOMAIN cache']_vars

\* C5, amended: a get of an entry older than the operation's TTL returns
\* absent and removes that entry alone; up to and including the age of
\* exactly the TTL the get returns the stored data and leaves the cache as it is.
C5_AbsentAfterTtl ==
    [][\A i \in CacheInputs :
         ( /\ CacheGet(i[1], i[2])
           /\ KeyOf(i[1], i[2]) \in DOMAIN cache )
         => LET k == KeyOf(i[1], i[2])
            IN IF now - cache[k].timestamp > TtlSeconds(i[1])
               THEN /\ last_op'.data = None
                    /\ cache' = Without(cache, {k})
               ELSE /\ last_op'.data = cache[k].data
                    /\ cache' = cache]_vars

\* A get has found an expired entry and removed it.
C5_ExpiredEntryRemoved ==
    /\ last_op.kind = "get_cached_response"
    /\ last_op.status = "expired"
    /\ last_op.data = None
    /\ KeyOf(last_op.operation, last_op.content) \notin DOMAIN cache

\* C6: a call made right after the cache write of an identical call is a
\* cache hit returning the value written, whatever that value is.
C6_PutThenGetHits ==
    [][\A a \in Services, o \in ThrottledOps, c \in ThrottledContents :
         ( /\ ThrottledRequest(1, a, o, c)
           /\ JustReturned(o, c)
           /\ ~last_op.cached
           /\ KeyOf(o, c) \in DOMAIN cache
           /\ cache[KeyOf(o, c)].timestamp = now )
         => /\ last_op'.cached
            /\ last_op'.data = last_op.data
            /\ cache' = cache]_vars

\* C7 as stated: clear_cache(operation) removes exactly the entries of that
\* operation and changes nothing else; clear_cache() removes all entries.
C7_ClearsOneOperation ==
    [][ /\ \A o \in CacheOps :
             ClearCache(TRUE, o) =>
                /\ cache' = Without(cache, {k \in DOMAIN cache : OperationOf(k) = o})
                /\ UNCHANGED <<request_history, usage_stats, rate_limits>>
        /\ ClearCache(FALSE, EmptyOp) =>
                /\ DOMAIN cache' = {}
                /\ UNCHANGED <<request_history, usage_stats, rate_limits>> ]_vars

\* C7, amended: clear_cache(operation) with a non-empty operation removes
\* exactly the entries whose key starts with the operation and ':', which
\* are those of the operation and of every operation whose name starts with
\* it and ':'; with no operation or an empty one it removes all entries.
\* Histories, counters and policies stay as they are.
C7_ClearsByKeyPrefix ==
    [][ /\ \A o \in CacheOps :
             ClearCache(TRUE, o) =>
                /\ IF o = EmptyOp
                   THEN DOMAIN cache' = {}
                   ELSE cache' = Without(cache,
                            {k \in DOMAIN cache :
                                \/ OperationOf(k) = o
                                \/ StartsWith(OperationOf(k), o \o <<":">>)})
                /\ UNCHANGED <<request_history, usage_stats, rate_limits>>
        /\ ClearCache(FALSE, EmptyOp) =>
                /\ DOMAIN cache' = {}
                /\ UNCHANGED <<request_history, usage_stats, rate_limits>> ]_vars

\* clear_cache("categorization") has removed that operation's entry and kept
\* an entry of another operation; a request is on record.
C7_OtherOperationKept ==
    /\ last_op.kind = "clear_cache"
    /\ last_op.cached
    /\ last_op.operation = Categorization
    /\ DOMAIN cache = {KeyOf(Sentiment, "body_a")}
    /\ usage_stats["test_api"].total_requests = 1

\* C8: calls with the same operation and content share the entry whatever
\* the service: the second of two such successive calls for different
\* services, within the TTL, is a cache hit.
C8_KeyIgnoresService ==
    [][\A a \in Services, o \in ThrottledOps, c \in ThrottledContents :
         ( /\ ThrottledRequest(1, a, o, c)
           /\ JustReturned(o, c)
           /\ last_op.api_name # a
           /\ KeyOf(o, c) \in DOMAIN cache
           /\ now - cache[KeyOf(o, c)].timestamp < CacheTtlFor(o) )
         => /\ last_op'.cached
            /\ last_op'.data = cache[KeyOf(o, c)].data
            /\ usage_stats'[a].total_requests = usage_stats[a].total_requests]_vars

\* C8, for calls whose first result is not None: the same statement.
C8_HoldsForValues ==
    [][\A a \in Services, o \in ThrottledOps, c \in ThrottledContents :
         ( /\ ThrottledRequest(1, a, o, c)
           /\ JustReturned(o, c)
           /\ last_op.api_name # a
           /\ last_op.data # None
           /\ KeyOf(o, c) \in DOMAIN cache
           /\ now - cache[KeyOf(o, c)].timestamp < CacheTtlFor(o) )
         => /\ last_op'.cached
            /\ last_op'.data = cache[KeyOf(o, c)].data
            /\ usage_stats'[a].total_requests = usage_stats[a].total_requests]_vars

IsSuccess(outcome) == outcome.kind = "response" /\ outcome.status_code = 200

IsTooMany(outcome) == outcome.kind = "response" /\ outcome.status_code = 429

\* C9: the executor invokes the outbound call at most max_retries times and
\* never again after a success result.
C9_AtMostMaxAttempts ==
    /\ \A w \in Workers :
          /\ frame[w].invocations <= frame[w].max_retries
          /\ Len(frame[w].seen) = frame[w].invocations
          /\ pc[w] \in {"execute", "backoff_sleep"} =>
                \A i \in 1 .. Len(frame[w].seen) : ~IsSuccess(frame[w].seen[i])
    /\ last_op.kind = "make_request_with_backoff" =>
          last_op.invocations <= last_op.max_retries

\* A run of the executor with the default 3 attempts has used them all.
C9_AllAttemptsUsed ==
    /\ last_op.kind = "make_request_with_backoff"
    /\ last_op.max_retries = DefaultMaxRetries
    /\ last_op.invocations = DefaultMaxRetries
    /\ last_op.status = "raised"

\* The seconds a Retry-After header asks for: "2" as delta-seconds, and
\* HttpDate as a date 2 s after the response
HintSeconds(retry_after) == 2

\* C10: every too-many-requests attempt is followed by a sleep of exactly
\* the retry hint when the response carries one, else of 5 * 2^attempt.
C10_SleepsTheHint ==
    \A w \in Workers :
        pc[w] \in {"execute", "backoff_sleep"} =>
            \A i \in 1 .. Len(frame[w].seen) :
                IsTooMany(frame[w].seen[i]) =>
                    /\ i <= Len(frame[w].sleeps)
                    /\ frame[w].sleeps[i] =
                          IF frame[w].seen[i].retry_after \in {None, ""}
                          THEN RateLimitBackoffBase * Pow2(i - 1)
                          ELSE HintSeconds(frame[w].seen[i].retry_after)

\* C10, for hints that are decimal integers: the same statement.
C10_HoldsForIntegerHints ==
    \A w \in Workers :
        pc[w] \in {"execute", "backoff_sleep"} =>
            \A i \in 1 .. Len(frame[w].seen) :
                (IsTooMany(frame[w].seen[i]) /\ frame[w].seen[i].retry_after # HttpDate) =>
                    /\ i <= Len(frame[w].sleeps)
                    /\ frame[w].sleeps[i] =
                          IF frame[w].seen[i].retry_after \in {None, ""}
                          THEN RateLimitBackoffBase * Pow2(i - 1)
                          ELSE HintSeconds(frame[w].seen[i].retry_after)

\* An attempt that raised, or returned a response that is neither a
\* success nor too-many-requests
IsFailure(outcome) ==
    \/ outcome.kind = "exception"
    \/ outcome.kind = "response" /\ outcome.status_code \notin {200, 429}

C11_FailedAttemptStep ==
    \A out \in Outcomes :
        (ExecutorAttempt(1, out) /\ IsFailure(out)) =>
            IF frame[1].attempt + 1 = frame[1].max_retries
            THEN /\ pc'[1] = "idle"
                 /\ now' = now
                 /\ last_op'.kind = "make_request_with_backoff"
                 /\ last_op'.status = IF out.kind = "exception" THEN "raised"
                                      ELSE "returned"
                 /\ last_op'.data = out.value
                 /\ last_op'.sleeps = frame[1].sleeps
            ELSE /\ pc'[1] = "backoff_sleep"
                 /\ frame'[1].sleeps = Append(frame[1].sleeps, 2 ^ frame[1].attempt)
                 /\ frame'[1].wake = now + 2 ^ frame[1].attempt

C11_SleepThenRetry ==
    \A w \in Workers :
        /\ (pc[w] = "backoff_sleep" /\ IsFailure(Last(frame[w].seen))) =>
              frame[w].attempt + 1 < frame[w].max_retries
        /\ (pc[w] = "execute" /\ frame[w].seen # << >>
                /\ IsFailure(Last(frame[w].seen))) =>
              /\ frame[w].attempt < frame[w].max_retries
              /\ now >= frame[w].wake

\* C11: an attempt that raises or returns a non-success, non-429 result is
\* followed by a sleep of 2^attempt seconds and another attempt, unless it
\* was the final attempt: then the result is returned, or the exception
\* re-raised, with no sleep after it.
C11_FailureBackoff ==
    []C11_SleepThenRetry /\ [][C11_FailedAttemptStep]_vars

\* Three attempts have failed; the third result was returned after sleeps of
\* 1 s and 2 s only.
C11_LastResultReturned ==
    /\ last_op.kind = "make_request_with_backoff"
    /\ last_op.status = "returned"
    /\ last_op.data = "Response500"
    /\ last_op.invocations = 3
    /\ last_op.sleeps = <<1, 2>>

C12_HandlerStep ==
    \A w \in Workers :
        HandleError(w) =>
            LET a == frame[w].api_name
            IN /\ usage_stats'[a].errors = usage_stats[a].errors + 1
               /\ \A b \in Services :
                     /\ b # a => usage_stats'[b] = usage_stats[b]
                     /\ \A c \in {"total_requests", "cached_responses", "rate_limited",
                                  "last_request"} :
                           usage_stats'[b][c] = usage_stats[b][c]
               /\ cache' = cache
               /\ lock' = Unlocked
               /\ last_op'.kind = "throttled_request"
               /\ last_op'.status = "raised"
               /\ last_op'.data = frame[w].response
               /\ ~last_op'.cached

C12_AfterTheRaise ==
    /\ \A w \in Workers : pc[w] = "handle_error" => lock # w
    /\ (last_op.kind = "throttled_request" /\ last_op.status = "raised") =>
          KeyOf(last_op.operation, last_op.content) \notin DOMAIN cache

\* C12: when an exception escapes the execute step of throttled_request the
\* service's errors counter grows by exactly one and nothing else is counted,
\* the exception reaches the caller, nothing is stored under the key and the
\* lock is free afterwards.
C12_ErrorCountedAndRaised ==
    []C12_AfterTheRaise /\ [][C12_HandlerStep]_vars

\* A throttled call for openai has failed on all three attempts and raised.
C12_CallRaised ==
    /\ last_op.kind = "throttled_request"
    /\ last_op.status = "raised"
    /\ last_op.data = "ConnectionError"
    /\ last_op.api_name = "openai"
    /\ last_op.invocations = 3
    /\ usage_stats["openai"].errors = 1
    /\ lock = Unlocked

C13_WriteStep ==
    \A w \in Workers :
        CacheWrite(w) =>
            LET k == KeyOf(frame[w].operation, frame[w].content)
            IN /\ k \in DOMAIN cache'
               /\ cache'[k].data = frame[w].response
               /\ cache'[k].timestamp = now
               /\ \A j \in DOMAIN cache \ {k} : j \in DOMAIN cache' /\ cache'[j] = cache[j]

C13_SecondCallerProceeds ==
    \A w1, w2 \in Workers :
        ( /\ w1 # w2
          /\ pc[w1] \in {"execute", "cache_write"}
          /\ pc[w2] = "idle"
          /\ lock = Unlocked
          /\ calls < MaxCalls
          /\ KeyOf(frame[w1].operation, frame[w1].content) \notin DOMAIN cache )
        => ENABLED ( /\ ThrottledRequest(w2, frame[w1].api_name, frame[w1].operation,
                                         frame[w1].content)
                     /\ pc'[w2] # "idle" )

\* C13: there is no single-flight de-duplication: while a caller that missed
\* the cache is executing or about to write, a second caller with the same
\* key is not held back, misses as well and goes on to its own execution;
\* and each cache write replaces whatever is stored under the key (last
\* write wins).
C13_NoSingleFlight ==
    []C13_SecondCallerProceeds /\ [][C13_WriteStep]_vars

\* Two callers with the same key both missed and both executed; the later
\* cache write has replaced the result the earlier one stored.
C13_BothExecutedBothWrote ==
    /\ last_op.kind = "throttled_request"
    /\ ~last_op.cached
    /\ last_op.replaced # None
    /\ last_op.replaced # last_op.data
    /\ \E a \in Services : usage_stats[a].total_requests = 2
    /\ \A a \in Services : usage_stats[a].cached_responses = 0
    /\ cache[KeyOf(last_op.operation, last_op.content)].data = last_op.data

\* Worker w is in its outbound call, the backoff sleeps included.
InOutboundCall(w) == pc[w] \in {"execute", "backoff_sleep"}

C14_LockFreeDuringCall ==
    /\ \A w \in Workers : InOutboundCall(w) => lock # w
    /\ \A w1, w2 \in Workers :
          ( /\ InOutboundCall(w1)
            /\ pc[w2] = "idle"
            /\ calls < MaxCalls
            /\ \A w3 \in Workers : pc[w3] # "admission_sleep" )
          => \A a \in Services, o \in ThrottledOps, c \in ThrottledContents :
                ENABLED ThrottledRequest(w2, a, o, c)

C14_MutationUnderLock ==
    (request_history' # request_history \/ cache' # cache
        \/ usage_stats' # usage_stats \/ rate_limits' # rate_limits)
    => \/ lock = Unlocked /\ lock' \in {Unlocked} \cup Workers
       \/ \E w \in Workers : lock = w /\ pc[w] = "admission_sleep" /\ pc'[w] = "execute"

\* C14: no worker holds the lock while it is in its outbound call; the
\* histories, the cache, the counters and the policies change only in a step
\* that takes the free lock or is made by the worker holding it; and while a
\* worker is in its outbound call any idle worker can enter throttled_request.
C14_LockNotHeldDuringCall ==
    []C14_LockFreeDuringCall /\ [][C14_MutationUnderLock]_vars

\* While worker 1's outbound call for openai, entered at 0, is still running,
\* worker 2 has completed a whole call for test_api recorded at 30.
C14_OtherWorkerCompleted ==
    /\ pc[1] = "execute"
    /\ frame[1].api_name = "openai"
    /\ frame[1].entered = 0
    /\ last_op.kind = "throttled_request"
    /\ last_op.worker = 2
    /\ last_op.api_name = "test_api"
    /\ ~last_op.cached
    /\ usage_stats["test_api"].last_request = <<30>>
    /\ lock = Unlocked

\* C15: while a worker sleeps in the admission step, every idle worker can
\* at once call get_usage_stats, and throttled_request for another service.
C15_SleepBlocksOnlySleeper ==
    \A w1, w2 \in Workers :
        (pc[w1] = "admission_sleep" /\ pc[w2] = "idle") =>
            /\ ENABLED GetUsageStats(w2)
            /\ calls < MaxCalls =>
                  \E a \in Services \ {frame[w1].api_name} :
                      ENABLED ThrottledRequest(w2, a, Sentiment, "body_a")

\* C16: in every step, whichever operation takes it, no usage counter of any
\* service decreases and last_request, once set, stays set and does not
\* move to an earlier instant.
C16_CountersMonotone ==
    [][\A a \in Services :
          /\ \A c \in {"total_requests", "cached_responses", "rate_limited", "errors"} :
                usage_stats'[a][c] >= usage_stats[a][c]
          /\ usage_stats[a].last_request # << >> =>
                /\ usage_stats'[a].last_request # << >>
                /\ usage_stats'[a].last_request[1] >= usage_stats[a].last_request[1]
      ]_vars

\* Every counter of openai has grown: two requests, the second recorded at 60
\* after an admission sleep, one cache hit, one error.
C16_AllCountersGrown ==
    /\ usage_stats["openai"].total_requests = 2
    /\ usage_stats["openai"].cached_responses = 1
    /\ usage_stats["openai"].rate_limited = 1
    /\ usage_stats["openai"].errors = 1
    /\ usage_stats["openai"].last_request = <<60>>


-----------------------------------------------------------------------------
(* Grouping and batching *)

Positions(list) == 1 .. Len(list)

\* Every position of the list occurs exactly once in the sequences of qs.
CoversOnce(qs, list) ==
    /\ Len(Flatten(qs)) = Len(list)
    /\ Range(Flatten(qs)) = Positions(list)

\* C17: the groups group_emails returns are a partition of its input by
\* position: no group is empty, and every position of the input is in exactly
\* one group, so that the groups together are the input.
C17_GroupsPartitionInput ==
    last_call = "group_emails" =>
        /\ \A g \in 1 .. Len(similarity_groups) : similarity_groups[g] # << >>
        /\ CoversOnce(similarity_groups, emails)

\* C17 witness: a list of at least three emails was split into several groups,
\* one of them with several members.
C17_SeveralGroups ==
    /\ last_call = "group_emails"
    /\ Len(emails) >= 3
    /\ Len(similarity_groups) >= 2
    /\ \E g \in 1 .. Len(similarity_groups) : Len(similarity_groups[g]) >= 2

\* The positions claimed by the groups before group g
ClaimedBefore(g) == UNION {Range(similarity_groups[h]) : h \in 1 .. g - 1}

\* C18: a group is built around its first member, the anchor: a later position
\* that no earlier group claimed is in the group exactly when its score against
\* the anchor reaches the threshold, whatever its score against the other
\* members; no position before the anchor is in the group.
C18_AnchorBased ==
    last_call = "group_emails" =>
        \A g \in 1 .. Len(similarity_groups) :
            LET group == similarity_groups[g]
                anchor == group[1]
            IN \A j \in Positions(emails) \ {anchor} :
                   j \in Range(group) <=>
                       /\ j > anchor
                       /\ j \notin ClaimedBefore(g)
                       /\ CalculateSimilarity(emails[anchor], emails[j])
                              >= similarity_threshold

\* C18 witness: an unclaimed later item reaches the threshold against a member
\* of a group that is not its anchor, does not reach it against the anchor, and
\* was left out of the group.
C18_NonAnchorMatchLeftOut ==
    /\ last_call = "group_emails"
    /\ \E g \in 1 .. Len(similarity_groups) :
           LET group == similarity_groups[g]
           IN \E m \in Range(group) \ {group[1]} :
                  \E j \in Positions(emails) \ (Range(group) \cup ClaimedBefore(g)) :
                      /\ j > m
                      /\ CalculateSimilarity(emails[m], emails[j])
                             >= similarity_threshold
                      /\ CalculateSimilarity(emails[group[1]], emails[j])
                             < similarity_threshold

\* C19: _create_batches never splits a similarity group: every group lies
\* whole inside one batch, also when it has more items than the batch size.
C19_GroupsNeverSplit ==
    last_call = "_create_batches" =>
        \A g \in 1 .. Len(similarity_groups) :
            \E b \in 1 .. Len(batches) :
                Range(similarity_groups[g]) \subseteq Range(batches[b].emails)

\* C19 witness: a group with more items than the batch size went into a batch.
C19_OversizedGroupKeptWhole ==
    /\ last_call = "_create_batches"
    /\ \E g \in 1 .. Len(similarity_groups) :
           /\ Len(similarity_groups[g]) > batch_size
           /\ \E b \in 1 .. Len(batches) :
                  Range(similarity_groups[g]) \subseteq Range(batches[b].emails)

\* The batch is one whole group with more items than the batch size.
IsOversizedGroup(batch) ==
    \E g \in 1 .. Len(similarity_groups) :
        /\ batch.emails = similarity_groups[g]
        /\ Len(similarity_groups[g]) > batch_size

BatchEmails == [b \in 1 .. Len(batches) |-> batches[b].emails]

\* C20: every batch _create_batches returns is non-empty and has at most
\* batch_size items unless it is exactly one group with more items than that;
\* the batches, in order, hold every input item exactly once.
C20_BatchSizesAndCoverage ==
    last_call = "_create_batches" =>
        /\ \A b \in 1 .. Len(batches) :
               /\ batches[b].emails # << >>
               /\ Len(batches[b].emails) <= batch_size \/ IsOversizedGroup(batches[b])
        /\ CoversOnce(BatchEmails, emails)
        /\ Flatten(BatchEmails) = Flatten(similarity_groups)

\* C20 witness: one batch is an oversized group and another batch is within
\* the batch size.
C20_OversizedAndFittingBatches ==
    /\ last_call = "_create_batches"
    /\ \E b \in 1 .. Len(batches) : IsOversizedGroup(batches[b])
    /\ \E b \in 1 .. Len(batches) : Len(batches[b].emails) <= batch_size

\* A batch filled to the batch size from several groups was returned.
C20_BatchOfSeveralGroups ==
    /\ last_call = "_create_batches"
    /\ \E b \in 1 .. Len(batches) :
           /\ Len(batches[b].emails) = batch_size
           /\ \E g \in 1 .. Len(similarity_groups) :
                  /\ Range(similarity_groups[g]) \subseteq Range(batches[b].emails)
                  /\ Len(similarity_groups[g]) < Len(batches[b].emails)


-----------------------------------------------------------------------------
(* The pairwise score *)

\* The subject without the reply and forward markers it begins with
RECURSIVE StripLeadingMarkers(_)
StripLeadingMarkers(words) ==
    IF words = << >> THEN words
    ELSE IF Head(words) \in {"re:", "fwd:", "fw:", " "}
         THEN StripLeadingMarkers(Tail(words))
         ELSE words

\* The score as C28 states it: the base ratio, 0.10 for senders equal without
\* regard to case, 0.20 for subjects equal once their leading markers are
\* stripped, 0.10 for body lengths within 20% of each other, at most 1.0.
StatedScore(email1, email2) ==
    LET len1 == ContentLength(email1)
        len2 == ContentLength(email2)
        gap == IF len1 >= len2 THEN len1 - len2 ELSE len2 - len1
    IN Min(SequenceMatcherRatio(email1, email2)
             + (IF Lower(email1.from) = Lower(email2.from) THEN 1000 ELSE 0)
             + (IF StripLeadingMarkers(LowerWords(email1.subject))
                     = StripLeadingMarkers(LowerWords(email2.subject))
                THEN 2000 ELSE 0)
             + (IF 5 * gap <= Max(len1, len2) THEN 1000 ELSE 0),
           10000)

\* C28: the score _calculate_similarity returns is the stated score: the
\* subject bonus is given exactly when the subjects are equal after their
\* leading reply and forward markers are stripped.
C28_ScoreAsStated ==
    last_call = "_calculate_similarity" =>
        similarity_score = StatedScore(emails[1], emails[2])

\* The part of C28 that holds: the same sender, subjects "Re: X" and "X",
\* bodies of one length and a base ratio of 0.35 score 0.75, and the pair is
\* one group at threshold 0.7.
C28_ScenarioD ==
    (emails = <<E6, E7>> /\ last_call # "none") =>
        /\ SequenceMatcherRatio(E6, E7) = 3500
        /\ last_call = "_calculate_similarity" => similarity_score = 7500
        /\ (last_call = "group_emails"
              /\ similarity_threshold = DefaultSimilarityThreshold)
               => similarity_groups = << <<1, 2>> >>


\* The stated score is the returned score for every pair in which no subject
\* has a marker after its first word.
C28_HoldsForLeadingMarkers ==
    (last_call = "_calculate_similarity" /\ E8 \notin Range(emails)) =>
        similarity_score = StatedScore(emails[1], emails[2])


-----------------------------------------------------------------------------
(* Processing a batch *)

\* The batches whose _process_single_batch has returned
Returned == {f \in 1 .. Len(futures) : futures[f].pc \in {"done", "collected"}}

\* The exact-match groups of the batch of f
ExactGroups(f) ==
    LET content_groups == ContentGroups(runs[futures[f].run].emails,
                                        futures[f].batch.emails, 1, << >>)
    IN [k \in 1 .. Len(content_groups) |-> content_groups[k].email_group]

RECURSIVE SumSaved(_)
SumSaved(groups) ==
    IF groups = << >> THEN 0
    ELSE Max(0, Len(Head(groups)) - 1) * 2 + SumSaved(Tail(groups))

\* C21: the api_calls_saved of every BatchResult is the sum, over all the
\* exact-match groups of its batch, of max(0, size - 1) * 2, whether the
\* groups succeeded or failed.
C21_SavedOverAllGroups ==
    \A f \in Returned :
        futures[f].batch_result.api_calls_saved = SumSaved(ExactGroups(f))

\* The statement of C21 holds for the batches that completed without an error.
C21_HoldsWhenGroupsSucceed ==
    \A f \in Returned :
        (futures[f].batch.processing_status = "completed"
            /\ futures[f].frame.errors = << >>)
        => futures[f].batch_result.api_calls_saved = SumSaved(ExactGroups(f))


\* The calls of func that the frame of f logged for the members of a group
CallsFor(f, email_group, func) ==
    {k \in 1 .. Len(futures[f].frame.calls) :
        /\ futures[f].frame.calls[k].func = func
        /\ futures[f].frame.calls[k].email \in Range(email_group)}

\* The results the frame of f holds for position p
ResultsFor(f, p) ==
    {k \in 1 .. Len(futures[f].frame.results) : futures[f].frame.results[k].email = p}

\* The groups of f that the loop has been through
GroupsDone(f) == 1 .. (futures[f].frame.g - 1)

SentimentRaised(f, email_group) ==
    \E k \in ResultsFor(f, email_group[1]) :
        futures[f].frame.results[k].error = "sentiment_func"

\* C22: for each exact-match group of a batch, sentiment_func is called
\* exactly once and categorize_func at most once, exactly once when
\* sentiment_func did not raise, sentiment first, both for the first member;
\* every member of the group gets the same sentiment and category.
C22_OneCallPairPerGroup ==
    \A f \in 1 .. Len(futures) :
        \A g \in GroupsDone(f) :
            LET email_group == futures[f].frame.content_groups[g].email_group
                sentiment_calls == CallsFor(f, email_group, "sentiment_func")
                categorize_calls == CallsFor(f, email_group, "categorize_func")
                results == futures[f].frame.results
            IN /\ Cardinality(sentiment_calls) = 1
               /\ Cardinality(categorize_calls)
                      = IF SentimentRaised(f, email_group) THEN 0 ELSE 1
               /\ \A s \in sentiment_calls, c \in categorize_calls : s < c
               /\ \A k \in sentiment_calls \cup categorize_calls :
                      futures[f].frame.calls[k].email = email_group[1]
               /\ futures[f].batch.processing_status # "failed" =>
                      \A p, q \in Range(email_group) :
                          \A k \in ResultsFor(f, p), m \in ResultsFor(f, q) :
                              /\ results[k].sentiment = results[m].sentiment
                              /\ results[k].category = results[m].category

\* C22 witness: a completed batch has a group of two emails that differ after
\* their first hundred characters, and both have the labels of the first.
C22_SharedLabelsOfFirstMember ==
    \E f \in Returned :
        /\ futures[f].batch.processing_status = "completed"
        /\ \E g \in GroupsDone(f) :
               LET email_group == futures[f].frame.content_groups[g].email_group
                   list == runs[futures[f].run].emails
               IN /\ Len(email_group) >= 2
                  /\ list[email_group[1]] # list[email_group[2]]
                  /\ \A p \in Range(email_group) : \E k \in ResultsFor(f, p) :
                         /\ futures[f].frame.results[k].sentiment
                                = SentimentFunc(list[email_group[1]])
                         /\ futures[f].frame.results[k].category
                                = CategorizeFunc(list[email_group[1]],
                                                 SentimentFunc(list[email_group[1]]))


\* The error entries the frame of f holds for position p
ErrorsFor(f, p) ==
    {k \in 1 .. Len(futures[f].frame.errors) : futures[f].frame.errors[k].email = p}

IsFallback(result) ==
    result.sentiment = "NEUTRAL" /\ result.category = "General Inquiries"

\* The group was handled by the group's handler
GroupRaised(f, email_group) ==
    \E k \in ResultsFor(f, email_group[1]) :
        futures[f].frame.results[k].error \in {"sentiment_func", "categorize_func"}

\* The batch of f met no exception outside the handling of its groups
NoBatchFatal(f) ==
    \A k \in 1 .. Len(futures[f].frame.errors) :
        futures[f].frame.errors[k].error \in {"sentiment_func", "categorize_func"}

\* Each member of a group that raised has one result, the fallback, and one
\* error entry; a batch that returns without a batch-fatal exception is
\* completed and has gone through all its groups.
C23_FallbackPerMember ==
    \A f \in 1 .. Len(futures) :
        /\ futures[f].batch.processing_status # "failed" =>
               \A g \in GroupsDone(f) :
                   LET email_group == futures[f].frame.content_groups[g].email_group
                   IN GroupRaised(f, email_group) =>
                          \A p \in Range(email_group) :
                              /\ Cardinality(ResultsFor(f, p)) = 1
                              /\ \A k \in ResultsFor(f, p) :
                                     IsFallback(futures[f].frame.results[k])
                              /\ Cardinality(ErrorsFor(f, p)) = 1
        /\ (f \in Returned /\ NoBatchFatal(f)) =>
               /\ futures[f].batch.processing_status = "completed"
               /\ futures[f].frame.g = Len(futures[f].frame.content_groups) + 1
               /\ \A p \in Range(futures[f].batch.emails) :
                      Cardinality(ResultsFor(f, p)) = 1

\* A round of the group loop leaves the results and the errors it found in
\* place, and the loop goes on with the next group.
C23_GroupStep ==
    \A f \in 1 .. Len(futures) :
        (AtGroup(f) /\ futures'[f].pc = "groups") =>
            LET before == futures[f].frame
                after == futures'[f].frame
            IN /\ Len(after.results) >= Len(before.results)
               /\ SubSeq(after.results, 1, Len(before.results)) = before.results
               /\ SubSeq(after.errors, 1, Len(before.errors)) = before.errors
               /\ after.g \in {before.g, before.g + 1}

C24_OneResultPerEmailOfFailedBatch ==
    \A f \in Returned :
        futures[f].batch.processing_status = "failed" =>
            \A p \in Range(futures[f].batch.emails) :
                Cardinality(ResultsFor(f, p)) = 1

\* The statement of C24 holds for a batch that fails before any of its groups
\* was processed.
C24_HoldsBeforeFirstGroup ==
    \A f \in Returned :
        (futures[f].batch.processing_status = "failed" /\ futures[f].frame.g = 1) =>
            \A p \in Range(futures[f].batch.emails) :
                /\ Cardinality(ResultsFor(f, p)) = 1
                /\ \A k \in ResultsFor(f, p) : IsFallback(futures[f].frame.results[k])

\* The failure of a batch leaves every other batch as it is.
C24_OtherBatchesKept ==
    [][\A f \in 1 .. Len(futures) :
          (futures[f].batch.processing_status # "failed"
              /\ futures'[f].batch.processing_status = "failed")
          => \A h \in (1 .. Len(futures)) \ {f} : futures'[h] = futures[h]]_vars


\* The changes of status a batch may make
StatusMoves ==
    {<<"pending", "processing">>, <<"processing", "completed">>,
     <<"processing", "failed">>}

\* C25: the status of a batch only moves pending -> processing -> completed
\* or pending -> processing -> failed: never from pending to a terminal
\* status, and never on from completed or failed.
C25_StatusMovesForward ==
    [][\A f \in 1 .. Len(futures) :
          futures'[f].batch.processing_status # futures[f].batch.processing_status
          => <<futures[f].batch.processing_status,
               futures'[f].batch.processing_status>> \in StatusMoves]_vars

\* C25 witness: of the batches of a run one has completed and one has failed,
\* and both were collected.
C25_CompletedAndFailed ==
    \E f, h \in 1 .. Len(futures) :
        /\ futures[f].pc = "collected"
        /\ futures[h].pc = "collected"
        /\ futures[f].batch.processing_status = "completed"
        /\ futures[h].batch.processing_status = "failed"


-----------------------------------------------------------------------------
(* What the processor keeps *)

\* The batch ids of the batches of run r
BatchIdsOf(r) == {futures[f].batch.batch_id : f \in FuturesOf(r)}

\* C26: a batch is discarded once its result was collected: after a run has
\* returned its flattened results the processor retains none of its batches
\* and none of their results.
C26_NothingRetainedAfterReturn ==
    \A r \in Runs :
        runs[r].phase = "flattened" =>
            /\ \A batch_id \in DOMAIN active_batches :
                   active_batches[batch_id] \notin FuturesOf(r)
            /\ \A k \in 1 .. Len(completed_batches) :
                   completed_batches[k].batch_id \notin BatchIdsOf(r)

\* What the code does: whatever was collected stays, so that after the runs
\* completed_batches has one entry for every batch ever processed.
C26_EverythingRetained ==
    /\ Len(completed_batches)
           = Cardinality({f \in 1 .. Len(futures) : futures[f].pc = "collected"})
    /\ \A f \in 1 .. Len(futures) :
           futures[f].pc = "collected" =>
               futures[f].batch.batch_id \in DOMAIN active_batches


-----------------------------------------------------------------------------
(* Scenario B *)

\* All calls of func that the frame of f logged
CallsOf(f, func) ==
    {k \in 1 .. Len(futures[f].frame.calls) : futures[f].frame.calls[k].func = func}

\* The batch of f has five items of which three are one exact-match group
FiveItemsThreeAlike(f) ==
    /\ Len(futures[f].batch.emails) = 5
    /\ \E g \in 1 .. Len(ExactGroups(f)) : Len(ExactGroups(f)[g]) = 3

\* ... and the two others are exact-match groups of their own
TwoOthersDiffer(f) == Len(ExactGroups(f)) = 3

C27_TwoGroupsSaveSix ==
    \A f \in Returned :
        (FiveItemsThreeAlike(f) /\ Len(ExactGroups(f)) = 2
            /\ futures[f].batch.processing_status = "completed"
            /\ futures[f].frame.errors = << >>)
        => /\ Cardinality(CallsOf(f, "sentiment_func")) = 2
           /\ futures[f].batch_result.api_calls_saved = 6


-----------------------------------------------------------------------------
(* The global statistics *)

\* The runs whose process_emails_batch has updated the statistics
RunsCounted == {r \in Runs : runs[r].phase \in {"returned", "flattened"}
                              /\ runs[r].emails # << >>}

EmailsOfRun(r) == Len(runs[r].emails)
BatchesOfRun(r) == Cardinality(FuturesOf(r))
SavedOfRun(r) == SumOf([k \in 1 .. Len(runs[r].batches) |->
                          futures[runs[r].batches[k]].batch_result], "api_calls_saved")

\* What the runs that have completed amount to together
TotalsOverRuns ==
    [r \in Runs |->
       IF r \in RunsCounted
       THEN [emails |-> EmailsOfRun(r), batches |-> BatchesOfRun(r),
             saved |-> SavedOfRun(r)]
       ELSE [emails |-> 0, batches |-> 0, saved |-> 0]]

\* C29: the statistics are the sums over the runs that have completed, also
\* when runs overlap: total_emails_processed counts their input emails,
\* total_batches_processed their batches, total_api_calls_saved the
\* api_calls_saved of their batches, and average_batch_size (in 1/10000) is
\* total_emails_processed / total_batches_processed.
C29_StatsSumOverRuns ==
    /\ processing_stats.total_emails_processed = SumOf(TotalsOverRuns, "emails")
    /\ processing_stats.total_batches_processed = SumOf(TotalsOverRuns, "batches")
    /\ processing_stats.total_api_calls_saved = SumOf(TotalsOverRuns, "saved")
    /\ processing_stats.total_batches_processed > 0 =>
           processing_stats.average_batch_size
               = (10000 * processing_stats.total_emails_processed)
                     \div processing_stats.total_batches_processed

\* C29 witness: two runs whose batches were collected in turn have both
\* updated the statistics.
C29_OverlappingRunsCounted ==
    /\ \A r \in {1, 2} : r \in RunsCounted
    /\ processing_stats.total_api_calls_saved > 0
    /\ \E i, j, k \in 1 .. Len(completed_batches) :
           /\ i < j /\ j < k
           /\ completed_batches[i].batch_id \in BatchIdsOf(1) \ BatchIdsOf(2)
           /\ completed_batches[j].batch_id \in BatchIdsOf(2) \ BatchIdsOf(1)
           /\ completed_batches[k].batch_id \in BatchIdsOf(1) \ BatchIdsOf(2)


-----------------------------------------------------------------------------
(* Batch identifiers *)

\* C30: any two batches a processor creates, in one call of _create_batches
\* or in two, at one clock instant or not, have different batch ids, and
\* active_batches has one entry for every batch collected.
C30_BatchIdsUnique ==
    /\ \A f, h \in 1 .. Len(futures) :
           f # h => futures[f].batch.batch_id # futures[h].batch.batch_id
    /\ Cardinality(DOMAIN active_batches)
           = Cardinality({f \in 1 .. Len(futures) : futures[f].pc = "collected"})

\* Two batches have one id exactly when they were created at one instant.
C30_SameIdAtSameInstant ==
    \A f, h \in 1 .. Len(futures) :
        futures[f].batch.batch_id = futures[h].batch.batch_id
            <=> futures[f].batch.created_at = futures[h].batch.created_at

-----------------------------------------------------------------------------
(* C31: the worker pool *)

Processing(f) == futures[f].batch.processing_status = "processing"

\* The emails of the groups that the worker of f has been through, in order
GroupsBehind(f) ==
    Flatten([k \in 1 .. futures[f].frame.g - 1 |->
               futures[f].frame.content_groups[k].email_group])

\* C31 as stated: at every moment at most max_workers batches are in status
\* processing, whichever calls they belong to.
C31_AtMostMaxWorkersProcessing ==
    Cardinality({f \in 1 .. Len(futures) : Processing(f)}) <= max_workers

\* C31: of the batches of one call of process_emails_batch at most
\* max_workers are in status processing at any moment, and the worker of a
\* batch goes through its groups one after the other: the results it holds
\* are those of the groups behind it, in their order.
C31_PoolBoundPerCall ==
    /\ \A r \in Runs :
         Cardinality({f \in FuturesOf(r) : Processing(f)}) <= max_workers
    /\ \A f \in 1 .. Len(futures) :
         futures[f].pc = "groups" =>
            [k \in 1 .. Len(futures[f].frame.results) |->
               futures[f].frame.results[k].email] = GroupsBehind(f)

\* A call whose pool is busy while another of its batches waits, its worker
\* having a group behind it
C31_BatchWaitsForWorker ==
    \E r \in Runs :
       /\ Cardinality({f \in FuturesOf(r) : Processing(f)}) = max_workers
       /\ \E f \in FuturesOf(r) : futures[f].pc = "submitted"
       /\ \E f \in FuturesOf(r) : Processing(f) /\ futures[f].frame.g > 1

-----------------------------------------------------------------------------
(* C32: the order of the steps of a throttled call that misses the cache *)

InCall(w) == pc[w] \in {"execute", "backoff_sleep", "cache_write", "handle_error"}

\* The steps of worker w, each with what it does to the history, the
\* counters and the cache
C32_CallStep ==
    \A w \in Workers :
      LET a == frame'[w].api_name
          b == frame[w].api_name
          pruned == CleanOldRequests(request_history[a], now)
      IN /\ (pc[w] = "idle" /\ pc'[w] = "admission_sleep") =>
                /\ CheckRateLimit(rate_limits, pruned, a, now) > 0
                /\ frame'[w].wake = now + CheckRateLimit(rate_limits, pruned, a, now)
                /\ request_history'[a] = pruned
                /\ usage_stats'[a].rate_limited = usage_stats[a].rate_limited + 1
                /\ usage_stats'[a].total_requests = usage_stats[a].total_requests
         /\ (pc[w] = "idle" /\ pc'[w] = "execute" /\ ~frame'[w].direct) =>
                /\ CheckRateLimit(rate_limits, pruned, a, now) = 0
                /\ request_history'[a] = RecordRequest(pruned, now)
                /\ usage_stats'[a].rate_limited = usage_stats[a].rate_limited
                /\ usage_stats'[a].total_requests = usage_stats[a].total_requests + 1
                /\ frame'[w].invocations = 0
         /\ (pc[w] = "admission_sleep" /\ pc'[w] # "admission_sleep") =>
                /\ pc'[w] = "execute"
                /\ now' >= frame[w].wake
                /\ request_history'[b] = RecordRequest(request_history[b], now')
                /\ usage_stats'[b].rate_limited = usage_stats[b].rate_limited
                /\ usage_stats'[b].total_requests = usage_stats[b].total_requests + 1
                /\ frame'[w].invocations = 0
         /\ (InCall(w) /\ ~frame[w].direct) =>
                /\ request_history'[b] = request_history[b]
                /\ usage_stats'[b].total_requests = usage_stats[b].total_requests
                /\ usage_stats'[b].rate_limited = usage_stats[b].rate_limited
                /\ pc'[w] \in {"cache_write", "handle_error"} =>
                       pc[w] = "execute" \/ pc'[w] = pc[w]
                /\ frame'[w].invocations > frame[w].invocations => pc[w] = "execute"
         /\ (pc[w] = "cache_write" /\ pc'[w] = "idle") =>
                /\ frame[w].invocations >= 1
                /\ KeyOf(frame[w].operation, frame[w].content) \in DOMAIN cache'
                /\ cache'[KeyOf(frame[w].operation, frame[w].content)].data
                       = frame[w].response
         /\ (pc[w] = "handle_error" /\ pc'[w] = "idle") =>
                /\ cache' = cache
                /\ usage_stats'[b].errors = usage_stats[b].errors + 1

\* rate_limited counts the sleeps: it moves exactly in the steps that put a
\* worker to its admission sleep.
C32_RateLimitedStep ==
    \A a \in Services :
        usage_stats'[a].rate_limited # usage_stats[a].rate_limited
            <=> \E w \in Workers : /\ pc[w] = "idle" /\ pc'[w] = "admission_sleep"
                                   /\ frame'[w].api_name = a

\* A call that is past its admission is on record and counted.
C32_RecordedBeforeExecution ==
    \A w \in Workers :
        (InCall(w) /\ ~frame[w].direct) =>
            /\ usage_stats[frame[w].api_name].total_requests >= 1
            /\ request_history[frame[w].api_name].day # << >>
            /\ Last(request_history[frame[w].api_name].day) >= frame[w].entered

\* C32: a throttled call that misses the cache prunes, checks, sleeps at most
\* once and then proceeds without a second check, records its timestamp and
\* counts itself in total_requests, executes, and writes the cache;
\* rate_limited moves exactly when a sleep occurs, and total_requests moves
\* before the execution and keeps its value when the execution fails.
C32_StepsInOrder ==
    /\ []C32_RecordedBeforeExecution
    /\ [][C32_CallStep /\ C32_RateLimitedStep]_vars

\* A call that slept once, was counted, failed in each of its attempts and
\* raised, after a call that was admitted at once
C32_SleptThenFailed ==
    /\ last_op.kind = "throttled_request"
    /\ last_op.status = "raised"
    /\ last_op.api_name = "openai"
    /\ usage_stats["openai"].rate_limited = 1
    /\ usage_stats["openai"].total_requests = 2
    /\ usage_stats["openai"].errors = 1
    /\ last_op.invocations = DefaultMaxRetries

-----------------------------------------------------------------------------
(* C33: the three windows of a service *)

IsSuffix(s, q) ==
    /\ Len(s) <= Len(q)
    /\ \A k \in 1 .. Len(s) : s[k] = q[Len(q) - Len(s) + k]

NonDecreasing(q) == \A k \in 1 .. Len(q) - 1 : q[k] <= q[k + 1]

C33_Nested ==
    \A a \in Services :
        /\ IsSuffix(request_history[a].minute, request_history[a].hour)
        /\ IsSuffix(request_history[a].hour, request_history[a].day)
        /\ \A window \in {"minute", "hour", "day"} :
               NonDecreasing(request_history[a][window])

\* A request that is counted puts the instant of the step at the end of each
\* of the three windows of its service.
C33_RecordStep ==
    \A a \in Services :
        usage_stats'[a].total_requests > usage_stats[a].total_requests =>
            \A window \in {"minute", "hour", "day"} :
                /\ request_history'[a][window] # << >>
                /\ Last(request_history'[a][window]) = now'

\* C33: a recorded request is appended with one instant to the minute, hour
\* and day sequences of its service, and after any calls and prunes the
\* minute sequence is a suffix of the hour sequence, the hour sequence a
\* suffix of the day sequence, and each is in non-decreasing order.
C33_WindowsNestedSuffixes == []C33_Nested /\ [][C33_RecordStep]_vars

\* Pruning has cut the windows to different lengths: three requests on
\* record for the day, two for the hour, one for the minute.
C33_ThreeLengths ==
    \E a \in Services :
        /\ Len(request_history[a].day) = 3
        /\ Len(request_history[a].hour) = 2
        /\ Len(request_history[a].minute) = 1

-----------------------------------------------------------------------------
(* C34: what the cache write stores *)

\* The executor handed a result to throttled_request: the step that follows
\* stores it as it is and returns it uncached, and no error is counted.
C34_WriteStep ==
    \A w \in Workers :
        (pc[w] = "cache_write" /\ pc'[w] = "idle") =>
            LET cache_key == KeyOf(frame[w].operation, frame[w].content)
            IN /\ cache_key \in DOMAIN cache'
               /\ cache'[cache_key].data = frame[w].response
               /\ last_op'.status = "returned"
               /\ last_op'.cached = FALSE
               /\ last_op'.data = frame[w].response
               /\ usage_stats' = usage_stats

\* A call that finds an entry of its key younger than the TTL is answered
\* with the entry's data, marked cached, and goes no further.
C34_HitStep ==
    \A w \in Workers :
        \A a \in Services, o \in ThrottledOps, c \in ThrottledContents :
            (/\ ThrottledRequest(w, a, o, c)
             /\ KeyOf(o, c) \in DOMAIN cache
             /\ now - cache[KeyOf(o, c)].timestamp <= TtlSeconds(o)
             /\ cache[KeyOf(o, c)].data # None) =>
                /\ pc'[w] = "idle"
                /\ last_op'.cached
                /\ last_op'.data = cache[KeyOf(o, c)].data
                /\ usage_stats'[a].total_requests = usage_stats[a].total_requests
                /\ usage_stats'[a].errors = usage_stats[a].errors

\* A response other than 200 reaches the cache write only from the final
\* attempt.
C34_NonSuccessOnlyFromFinalAttempt ==
    \A w \in Workers :
        (pc[w] = "cache_write" /\ frame[w].response = Error500.value) =>
            /\ Last(frame[w].seen) = Error500
            /\ frame[w].invocations = frame[w].max_retries

\* C34: whatever the executor returns without raising is stored as it is,
\* a non-success response of the final attempt included: that call returns
\* with cached=false and no error counted, and a later identical call within
\* the TTL is served the stored response without an outbound call.
C34_RawResultCached ==
    /\ []C34_NonSuccessOnlyFromFinalAttempt
    /\ [][C34_WriteStep /\ C34_HitStep]_vars

\* The 500 response of a final attempt has been served from the cache to a
\* second call: one request on record, one cache hit, no error.
C34_Served500FromCache ==
    /\ last_op.kind = "throttled_request"
    /\ last_op.cached
    /\ last_op.data = Error500.value
    /\ usage_stats[last_op.api_name].total_requests = 1
    /\ usage_stats[last_op.api_name].cached_responses = 1
    /\ usage_stats[last_op.api_name].errors = 0

-----------------------------------------------------------------------------
(* C35: the marking of shared results *)

\* The results of the members of the groups that were processed without a
\* raise, each with its group and its place in the group
SharedResults(f) ==
    {t \in [g : GroupsDone(f), m : 1 .. Len(futures[f].batch.emails),
             k : 1 .. Len(futures[f].frame.results)] :
        LET email_group == futures[f].frame.content_groups[t.g].email_group
            result == futures[f].frame.results[t.k]
        IN /\ t.m <= Len(email_group)
           /\ result.email = email_group[t.m]
           /\ result.error = None}

\* C35 as stated: in a group of several members the result of the first
\* member is not marked as served from a shared result and the result of
\* every other member is; the result of a single-member group is not marked.
C35_OnlyNonRepresentativesMarked ==
    \A f \in 1 .. Len(futures) :
        \A t \in SharedResults(f) :
            futures[f].frame.results[t.k].cached_result = (t.m > 1)

\* What holds instead: every member of a group of several is marked, the
\* first one included, and the member of a single-member group is not.
C35_MarkedByGroupSize ==
    \A f \in 1 .. Len(futures) :
        \A t \in SharedResults(f) :
            futures[f].frame.results[t.k].cached_result
                = (Len(futures[f].frame.content_groups[t.g].email_group) > 1)

-----------------------------------------------------------------------------
(* C36: a run terminates *)

\* What the caller holds once process_emails_batch has returned
C36_ReturnedList ==
    \A r \in Runs :
        runs[r].phase \in {"returned", "flattened"} =>
            /\ \A f \in FuturesOf(r) :
                   /\ futures[f].pc = "collected"
                   /\ futures[f].batch.processing_status \in {"completed", "failed"}
                   /\ futures[f].batch_result \in Range(runs[r].returned)
            /\ Len(runs[r].returned) = Cardinality(FuturesOf(r))
            /\ \A k \in 1 .. Len(runs[r].returned) :
                   \E f \in FuturesOf(r) : runs[r].returned[k] = futures[f].batch_result
            /\ SumOf(runs[r].returned, "total_count") = Len(runs[r].emails)

\* C36: when sentiment_func and categorize_func return or raise, a run of
\* process_emails_batch that has submitted its batches returns; by then every
\* batch it created is completed or failed and collected, and the list it
\* returns has one BatchResult per batch, the total_count values adding up to
\* the number of input emails.
C36_RunTerminates ==
    /\ []C36_ReturnedList
    /\ (runs[1].phase = "collecting") ~> (runs[1].phase \in {"returned", "flattened"})

\* A run of several batches has returned, one of its batches failed and one
\* completed.
C36_ReturnedWithFailedBatch ==
    /\ runs[1].phase = "returned"
    /\ \E f, h \in FuturesOf(1) :
           /\ futures[f].batch.processing_status = "failed"
           /\ futures[h].batch.processing_status = "completed"

-----------------------------------------------------------------------------
(* C37: the minute limit *)

\* The requests on record for a service from the k-th on that came less than
\* a minute after the k-th
WithinAMinuteOf(q, k) == {j \in k .. Len(q) : q[j] - q[k] < MinuteHorizon}

\* C37: with requests_per_minute = N, the hour and day limits out of reach
\* and callers interleaved in any way, no more than N requests are on record
\* for the service within any span shorter than 60 seconds.
C37_AtMostNPerMinute ==
    \A a \in Services \cap DOMAIN rate_limits :
        \A k \in 1 .. Len(request_history[a].day) :
            Cardinality(WithinAMinuteOf(request_history[a].day, k))
                <= rate_limits[a].requests_per_minute

\* What holds instead: a request is recorded at once only if the window has
\* room after the prune or its oldest timestamp is a full minute old, and a
\* caller that slept is recorded a minute or more after the oldest timestamp
\* it found.
C37_AdmittedStep ==
    \A w \in Workers :
        LET a == frame'[w].api_name
            pruned == CleanOldRequests(request_history[a], now).minute
        IN /\ (pc[w] = "idle" /\ pc'[w] = "execute" /\ a \in DOMAIN rate_limits) =>
                  \/ Len(pruned) < rate_limits[a].requests_per_minute
                  \/ now - Head(pruned) = MinuteHorizon
           /\ (pc[w] = "admission_sleep" /\ pc'[w] = "execute") =>
                  now' - Head(request_history[a].minute) >= MinuteHorizon

C37_AdmittedByOldestTimestamp == [][C37_AdmittedStep]_vars

-----------------------------------------------------------------------------
(* C38: every attempt is answered too-many-requests *)

AllTooMany(seen) == \A i \in 1 .. Len(seen) : IsTooMany(seen[i])

\* The step is the final attempt of w, answered 429 as all before it were
FinalTooMany(w) ==
    /\ pc[w] = "execute"
    /\ frame[w].max_retries >= 1
    /\ IsFinalAttempt(frame[w].attempt, frame[w].max_retries)
    /\ AllTooMany(frame[w].seen)
    /\ \E outcome \in Outcomes : IsTooMany(outcome) /\ ExecutorAttempt(w, outcome)

\* The step is the raise that follows the loop, every attempt having been
\* answered 429
RaisesAfterLoop(w) ==
    /\ frame[w].max_retries >= 1
    /\ AllTooMany(frame[w].seen)
    /\ ExecutorExhausted(w)

\* C38 as stated: when every one of the max_retries attempts is answered
\* 429, the executor sleeps after each of them, the last included, has made
\* exactly max_retries calls when the loop is over, and then raises its
\* failure; throttled_request counts one error and caches nothing.
C38_SleepsAfterEachThenRaises ==
    [][\A w \in Workers :
          /\ FinalTooMany(w) =>
                /\ pc'[w] = "backoff_sleep"
                /\ Len(frame'[w].sleeps) = frame[w].max_retries
          /\ RaisesAfterLoop(w) =>
                /\ frame[w].invocations = frame[w].max_retries
                /\ Len(frame[w].sleeps) = frame[w].max_retries
                /\ frame[w].direct =>
                      last_op'.status = "raised" /\ last_op'.data = "RequestFailed"
                /\ ~frame[w].direct => pc'[w] = "handle_error"
          /\ (pc[w] = "handle_error" /\ pc'[w] = "idle") =>
                /\ usage_stats'[frame[w].api_name].errors
                       = usage_stats[frame[w].api_name].errors + 1
                /\ cache' = cache
                /\ last_op'.status = "raised"
      ]_vars

\* A throttled call whose three attempts were answered 429 without a hint
\* has slept 5, 10 and 20 seconds and raised: one error, nothing cached.
C38_ThrottledCallExhausted ==
    /\ last_op.kind = "throttled_request"
    /\ last_op.status = "raised"
    /\ last_op.data = "RequestFailed"
    /\ last_op.invocations = DefaultMaxRetries
    /\ last_op.sleeps = <<5, 10, 20>>
    /\ usage_stats[last_op.api_name].errors = 1
    /\ cache = << >>

-----------------------------------------------------------------------------
(* C39: the counts of a BatchResult *)

CountsAddUp(result) ==
    /\ result.success_count + result.error_count = result.total_count
    /\ 0 <= result.success_count
    /\ result.success_count <= result.total_count
    /\ 0 <= result.error_count
    /\ result.error_count <= result.total_count

\* C39: every BatchResult has success_count + error_count = total_count with
\* both counts between 0 and total_count, whichever groups fail and wherever
\* a batch-fatal exception strikes.
C39_CountsAddUp ==
    \A f \in Returned : CountsAddUp(futures[f].batch_result)

\* What holds instead: the counts add up for every batch that completed,
\* whichever of its groups failed, and for a batch that failed before any of
\* its groups produced a result.
C39_HoldsWithoutResultsBeforeFailure ==
    \A f \in Returned :
        (\/ futures[f].batch.processing_status = "completed"
         \/ futures[f].frame.g = 1) => CountsAddUp(futures[f].batch_result)

-----------------------------------------------------------------------------
(* C40: the results of process_emails_in_batches *)

\* The places of the flattened list that hold a result for position p
FlattenedFor(r, p) ==
    {k \in 1 .. Len(runs[r].all_results) : runs[r].all_results[k].result.email = p}

\* C40: process_emails_in_batches returns exactly one result for every input
\* email, whatever the input and whichever calls of sentiment_func and
\* categorize_func fail, the emails of a batch that ends failed included.
C40_OneResultPerInputEmail ==
    \A r \in Runs :
        runs[r].phase = "flattened" =>
            \A p \in 1 .. Len(runs[r].emails) : Cardinality(FlattenedFor(r, p)) = 1

\* What holds instead: every input email has exactly one result when all
\* batches of the call completed under ids of their own; the emails of a
\* failed batch have none.
C40_HoldsForCompletedBatches ==
    \A r \in Runs :
        runs[r].phase = "flattened" =>
            /\ (/\ \A f \in FuturesOf(r) : futures[f].batch.processing_status = "completed"
                /\ \A f, h \in FuturesOf(r) :
                       f # h => futures[f].batch.batch_id # futures[h].batch.batch_id)
                  => \A p \in 1 .. Len(runs[r].emails) :
                         Cardinality(FlattenedFor(r, p)) = 1
            /\ \A f \in FuturesOf(r) :
                   futures[f].batch.processing_status = "failed" =>
                       \A k \in 1 .. Len(runs[r].all_results) :
                           runs[r].all_results[k].batch # f

====
